---- MODULE Spec2Model ----
(***************************************************************************)
(* State-machine model of docetl/mcts/mcts.py (class MCTS): construction,  *)
(* search(), mcts_iteration() with its selection, dual-goal expansion,     *)
(* simulation and backpropagation phases, and should_continue().           *)
(*                                                                         *)
(* Node and ParetoFrontier are imported by mcts.py but their files are not *)
(* part of the sources at hand; the few operations of them that mcts.py    *)
(* calls (Node construction, add_child, mark_action_used_*, update_value,  *)
(* update_visit, best_child, execute_plan, ParetoFrontier.add_plan) are    *)
(* modelled from the specification text (sections 3, 4.1, 4.3, 4.4).       *)
(***************************************************************************)
EXTENDS Integers, Sequences, FiniteSets, TLC

(***************************************************************************)
(* Bounds and input sets.                                                  *)
(***************************************************************************)
\* max_iterations, constructor argument (mcts.py:44, default 20).
max_iterations == 2
\* expansion_count, constructor argument (mcts.py:46, default 4).
expansion_count == 2

None == 0

\* No answer of the oracle is at hand.
NoReply == [directive |-> "none", operators |-> {}]

\* Names of the operators that plans are built from.
OpNames == {"a", "b"}
\* The catalogs the constructor may be given as available_actions.
Catalogs == {{"change model"}, {"gleaning", "change model"},
             {"chaining", "gleaning", "change model"}}
\* What one call of expand may be answered from outside: the directive name
\* and the target operators the Recommendation Oracle names, and whether the
\* directive's instantiate() then yields a new operator list (TRUE) or None.
\* Nothing ties the oracle's answer to the menu it was shown, and "bogus" is
\* a name no catalog holds.
Answers == {<<"gleaning", {"a"}, TRUE>>,
            <<"change model", {"a", "b"}, TRUE>>,
            <<"change model", {"b"}, TRUE>>,
            <<"change model", {"a", "b"}, FALSE>>,
            <<"bogus", {"a"}, FALSE>>}
\* The operator names of the root plan and of the plans instantiate() yields.
RootPlan == {"a", "b"}
ChildPlans == {{"a"}}
\* Realised <<cost, accuracy rank>> of an executed plan.
RootOutcome == <<2, 1>>
Outcomes == {<<2, 1>>, <<1, 3>>}
\* Values of the max_time constructor argument (None: no limit), in ticks
\* of the wall clock; one iteration takes one tick.
MaxTimes == {None, 1}

VARIABLES
    pc,                 \* position of the controller
    err,                \* the exception that ended the search, "" if none
    nnodes,             \* number of Node objects created; ids are 1..nnodes
    parent,             \* Node.parent (None for the root)
    children,           \* Node.children, a list
    visits,             \* Node.visits
    value,              \* Node.value
    ops,                \* operator names of Node.parsed_yaml / Node.op_dict
    yaml_file_path,     \* Node.yaml_file_path, as a list of name tokens
    parsed_yaml,        \* Node.parsed_yaml: output path and bypass_cache
    made_by,            \* history: goal, directive and targets that made the node
    used_actions_acc,   \* Node.used_actions_acc: operator -> set of directives
    used_actions_cost,  \* Node.used_actions_cost
    cost,               \* Node.cost after execute_plan (None before)
    accuracy,           \* accuracy rank the comparator assigns (None before)
    frontier_plans,     \* ParetoFrontier.frontier_plans
    available_actions,  \* MCTS.available_actions, the catalog
    iteration_count,    \* MCTS.iteration_count
    max_time,           \* MCTS.max_time
    start_time,         \* MCTS.start_time
    now,                \* the wall clock, time.time()
    leaf,               \* mcts_iteration locals
    leaf_acc,
    leaf_cost,
    has_leaf_acc,
    has_leaf_cost,
    menu,               \* action_options last built by expand
    reply,              \* directive and operators the oracle last answered
    outcome_acc,        \* how the last expand(leaf, "acc") ended
    outcome_cost,       \* how the last expand(leaf, "cost") ended
    executed,           \* history: number of simulate() events per node
    attributed,         \* history: sum of the deltas add_plan reported per node
    discarded,          \* history: the part of attributed that __init__ dropped
    iter0,              \* history: snapshot taken when the iteration started
    started,            \* history: number of calls of mcts_iteration
    probe,              \* result of the function applied by a Probe action
    probe_in            \* arguments of the function a Probe action applies

vars == <<pc, err, nnodes, parent, children, visits, value, ops, yaml_file_path,
                   parsed_yaml, made_by,
          used_actions_acc, used_actions_cost, cost, accuracy, frontier_plans,
          available_actions, iteration_count, max_time, start_time, now, leaf, leaf_acc,
          leaf_cost, has_leaf_acc, has_leaf_cost, menu, reply,
                   outcome_acc,
          outcome_cost, executed, attributed, discarded, iter0, started, probe,
                   probe_in>>

root == 1
Nodes == 1 .. nnodes

(***************************************************************************)
(* Helpers on finite sets and on the tree.                                 *)
(***************************************************************************)
RECURSIVE SumOver(_, _)
SumOver(S, f) ==
    IF S = {} THEN 0
    ELSE LET x == CHOOSE y \in S : TRUE
         IN f[x] + SumOver(S \ {x}, f)

RECURSIVE AncestorsOrSelf(_)
AncestorsOrSelf(n) ==
    IF n = None THEN {} ELSE {n} \cup AncestorsOrSelf(parent[n])

SubtreeOf(n) == {m \in Nodes : n \in AncestorsOrSelf(m)}

Range(s) == {s[i] : i \in 1 .. Len(s)}

EmptyUsed == [o \in OpNames |-> {}]

(***************************************************************************)
(* Node (modelled from the specification, section 3 and 4.1).              *)
(***************************************************************************)
\* Node.update_value: value is a running sum.
update_value(val, n, delta) == [val EXCEPT ![n] = @ + delta]

\* Node.update_visit.
update_visit(vis, n) == [vis EXCEPT ![n] = @ + 1]

\* Node.mark_action_used_acc / mark_action_used_cost on a set of operators:
\* idempotent insertion into the operator's used set.
mark_action_used(used, targets, d) ==
    [o \in OpNames |-> IF o \in targets THEN used[o] \cup {d} ELSE used[o]]

\* Node.best_child: the child of maximal UCB score, a child never visited
\* being preferred unconditionally.  The score is real valued and depends on
\* the exploration constant, so among visited children every child is a
\* possible maximiser.
best_child(n) ==
    LET kids == Range(children[n])
        fresh == {c \in kids : visits[c] = 0}
    IN IF fresh # {} THEN fresh ELSE kids

(***************************************************************************)
(* ParetoFrontier.add_plan (modelled from the specification, section 4.4). *)
(***************************************************************************)
Dominates(c1, a1, c2, a2) ==
    /\ c1 <= c2
    /\ a1 >= a2
    /\ (c1 < c2 \/ a1 > a2)

\* The members of the frontier that dominate a plan of cost c, accuracy a.
Dominators(c, a) ==
    {m \in frontier_plans : Dominates(cost[m], accuracy[m], c, a)}

\* The members a plan of cost c, accuracy a evicts.
Evicted(c, a) ==
    {m \in frontier_plans : Dominates(c, a, cost[m], accuracy[m])}

\* The frontier after inserting node p with outcome <<c, a>>.
add_plan_frontier(p, c, a) ==
    IF Dominators(c, a) # {} THEN frontier_plans
    ELSE (frontier_plans \ Evicted(c, a)) \cup {p}

\* The affected-nodes map add_plan returns: node -> signed contribution.
add_plan_affected(p, c, a) ==
    IF Dominators(c, a) # {} THEN [n \in {} |-> 0]
    ELSE [n \in Evicted(c, a) \cup {p} |-> IF n = p THEN 1 ELSE -1]

(***************************************************************************)
(* MCTS.is_fully_explored, mcts.py:227-236.                                *)
(***************************************************************************)
\* Variant of is_fully_explored: the child count is compared with > .
is_fully_explored_gt(n) ==
    \/ Len(children[n]) > expansion_count
    \/ \A op \in ops[n] :
          /\ ~(Cardinality(used_actions_acc[n][op]) < 3)
          /\ ~(Cardinality(used_actions_cost[n][op]) < 1)

is_fully_explored(n) ==
    \/ Len(children[n]) >= expansion_count
    \/ \A op \in ops[n] :
          /\ ~(Cardinality(used_actions_acc[n][op]) < 3)
          /\ ~(Cardinality(used_actions_cost[n][op]) < 1)

(***************************************************************************)
(* MCTS.select, mcts.py:164-179.  The set of nodes the descent can return; *)
(* None stands for best_child() raising on a node without children.        *)
(***************************************************************************)
\* Variant of select: the loop body never runs, the start node is returned.
select_stays(current) == {current}

RECURSIVE select(_)
select(current) ==
    IF ~is_fully_explored(current) THEN {current}
    ELSE IF children[current] = <<>> THEN {None}
    ELSE UNION {select(c) : c \in best_child(current)}

(***************************************************************************)
(* MCTS.should_continue, mcts.py:540-548.  The wall-clock test is          *)
(* commented out in the source, so only the iteration count decides.       *)
(***************************************************************************)
\* Variant of should_continue: the loop stops one iteration early.
should_continue_one_short ==
    IF iteration_count + 1 >= max_iterations THEN FALSE ELSE TRUE

should_continue ==
    IF iteration_count >= max_iterations THEN FALSE ELSE TRUE

(***************************************************************************)
(* MCTS.expand: the candidate menus, mcts.py:370-410.                      *)
(***************************************************************************)
op_list(n) == ops[n]

\* Variant of action_options_acc: the used set is not subtracted.
action_options_acc_ignores_used(n) ==
    UNION {{<<op_name, action>> : action \in available_actions} :
           op_name \in op_list(n)}

action_options_acc(n) ==
    UNION {{<<op_name, action>> :
               action \in available_actions \ used_actions_acc[n][op_name]} :
           op_name \in op_list(n)}

\* Variant of action_options_cost: the accuracy used set is consulted.
action_options_cost_reads_acc(n) ==
    {<<op_name, "change model">> :
        op_name \in {o \in op_list(n) :
                        "change model" \notin used_actions_acc[n][o]}}

action_options_cost(n) ==
    {<<op_name, "change model">> :
        op_name \in {o \in op_list(n) :
                        "change model" \notin used_actions_cost[n][o]}}

(***************************************************************************)
(* MCTS.update_pipeline, mcts.py:185-210.  steps is the list of the        *)
(* "operations" lists of orig_config["pipeline"]["steps"]; new_ops_list is *)
(* the list of the names of the new operators, NoName standing for an      *)
(* operator without a "name" key.                                          *)
(***************************************************************************)
NoName == "<no name>"

HasName(op) == op # NoName

\* Line 198: op_names.
op_names_of(new_ops_list) == SelectSeq(new_ops_list, HasName)

\* Variant of rewrite_step: an operator that is not target_ops[0] is kept.
RECURSIVE rewrite_step_keeps_others(_, _, _)
rewrite_step_keeps_others(step_ops, op_names, target_ops) ==
    IF step_ops = <<>> THEN <<>>
    ELSE (IF Head(step_ops) = target_ops[1]
          THEN op_names ELSE <<Head(step_ops)>>)
         \o rewrite_step_keeps_others(Tail(step_ops), op_names, target_ops)

\* Lines 204-208: the new "operations" list of one step.  Python's
\* target_ops[0] is target_ops[1] here.
RECURSIVE rewrite_step(_, _, _)
rewrite_step(step_ops, op_names, target_ops) ==
    IF step_ops = <<>> THEN <<>>
    ELSE (IF Head(step_ops) = target_ops[1] THEN op_names ELSE <<>>)
         \o rewrite_step(Tail(step_ops), op_names, target_ops)

\* update_pipeline: "IndexError" when target_ops[0] is evaluated on an empty
\* target list.
update_pipeline(steps, new_ops_list, target_ops) ==
    IF target_ops = <<>> /\ \E i \in DOMAIN steps : steps[i] # <<>>
    THEN "IndexError"
    ELSE [i \in DOMAIN steps |->
             rewrite_step(steps[i], op_names_of(new_ops_list), target_ops)]

(***************************************************************************)
(* MCTS.expand: the name of the child plan and of its output artifact,     *)
(* mcts.py:464-476.  A path is the list of the tokens that the f-strings   *)
(* concatenate.                                                            *)
(***************************************************************************)
\* The path given to the constructor and the output path in that plan.
RootYamlPath == <<"root", ".yaml">>
RootOutputPath == <<"out", ".json">>

\* str(n) for the ordinals that occur.
str(n) == <<"1", "2", "3", "4", "5", "6", "7", "8", "9">>[n]

\* str.removesuffix(".yaml")
removesuffix(path) ==
    IF Len(path) > 0 /\ path[Len(path)] = ".yaml"
    THEN SubSeq(path, 1, Len(path) - 1)
    ELSE path

\* Variant of new_yaml_path: the goal tag alone is appended.
new_yaml_path_no_ordinal(node_path, nchildren, optimize_goal) ==
    removesuffix(node_path) \o <<"_", optimize_goal, ".yaml">>

\* f"{base_path}_{len(node.children)+1}_{optimize_goal}.yaml"
new_yaml_path(node_path, nchildren, optimize_goal) ==
    removesuffix(node_path)
        \o <<"_", str(nchildren + 1), "_", optimize_goal, ".yaml">>

\* Variant of new_output_path: the ordinal is left out, the output path is
\* the parent's plan name with the suffix .json.
new_output_path_no_ordinal(node_path, nchildren) ==
    removesuffix(node_path) \o <<".json">>

\* f"{base_path}_{len(node.children)+1}.json"
new_output_path(node_path, nchildren) ==
    removesuffix(node_path) \o <<"_", str(nchildren + 1), ".json">>

\* The operators of a set as a list, in the order of the root plan.
as_list(S) ==
    (IF "a" \in S THEN <<"a">> ELSE <<>>) \o (IF "b" \in S THEN <<"b">> ELSE <<>>)

\* The pipeline steps of the root plan: one step that runs every operator.
RootSteps == <<as_list(RootPlan)>>

\* The plan of the child: a deep copy of the parent's with the output path
\* replaced, bypass_cache set and the steps rewritten by update_pipeline.
new_parsed_yaml(node_yaml, node_path, nchildren, new_ops, targets) ==
    [node_yaml EXCEPT !.output_path = new_output_path(node_path, nchildren),
                      !.bypass_cache = TRUE,
                      !.steps = update_pipeline(@, as_list(new_ops),
                                                as_list(targets))]

(***************************************************************************)
(* MCTS.expand: coupled bookkeeping on the new child, mcts.py:491-502.     *)
(***************************************************************************)
\* Variant of child_used_acc: after gleaning the child records the chosen
\* directive itself.
child_used_acc_marks_chosen(directive_name, targets) ==
    IF directive_name \in {"gleaning", "change model"}
        THEN mark_action_used(EmptyUsed, targets, directive_name)
    ELSE EmptyUsed

child_used_acc(directive_name, targets) ==
    IF directive_name = "gleaning"
        THEN mark_action_used(EmptyUsed, targets, "chaining")
    ELSE IF directive_name = "change model"
        THEN mark_action_used(EmptyUsed, targets, "change model")
    ELSE EmptyUsed

\* Variant of child_used_cost: change model is recorded for the accuracy
\* goal alone.
child_used_cost_unmarked(directive_name, targets) == EmptyUsed

child_used_cost(directive_name, targets) ==
    IF directive_name = "change model"
        THEN mark_action_used(EmptyUsed, targets, "change model")
    ELSE EmptyUsed

(***************************************************************************)
(* MCTS.backpropagate, mcts.py:523-538.                                    *)
(***************************************************************************)
\* Variant of walk_value: the value is added to the affected node alone and
\* the parent chain is not followed.
walk_value_self_only(val, current, delta) ==
    IF current = None THEN val ELSE update_value(val, current, delta)

\* The inner while loop of lines 529-533: add val from current up to the root.
RECURSIVE walk_value(_, _, _)
walk_value(val, current, delta) ==
    IF current = None THEN val
    ELSE walk_value(update_value(val, current, delta), parent[current], delta)

\* Variant of backpropagate_value: the loop over the affected nodes ends
\* after its first pass.
backpropagate_value_first_only(val, affected) ==
    IF DOMAIN affected = {} THEN val
    ELSE LET node == CHOOSE m \in DOMAIN affected : TRUE
         IN walk_value(val, node, affected[node])

\* The for loop of lines 528-533 over affected_nodes.items().
RECURSIVE backpropagate_value(_, _)
backpropagate_value(val, affected) ==
    IF DOMAIN affected = {} THEN val
    ELSE LET node == CHOOSE m \in DOMAIN affected : TRUE
             rest == [m \in DOMAIN affected \ {node} |-> affected[m]]
         IN backpropagate_value(walk_value(val, node, affected[node]), rest)

\* Variant of backpropagate_visits: only visit_node itself is counted.
backpropagate_visits_self_only(vis, current) ==
    IF current = None THEN vis ELSE update_visit(vis, current)

\* Variant of backpropagate_visits: the walk stops below the root, which is
\* not counted.
RECURSIVE backpropagate_visits_below_root(_, _)
backpropagate_visits_below_root(vis, current) ==
    IF current = None \/ parent[current] = None THEN vis
    ELSE backpropagate_visits_below_root(update_visit(vis, current),
                                         parent[current])

\* The while loop of lines 535-538: one visit from visit_node up to the root.
RECURSIVE backpropagate_visits(_, _)
backpropagate_visits(vis, current) ==
    IF current = None THEN vis
    ELSE backpropagate_visits(update_visit(vis, current), parent[current])

\* Variant of backpropagate: the visit is counted inside the loop over the
\* affected nodes, once along the path of each of them.
RECURSIVE backpropagate_visits_each(_, _)
backpropagate_visits_each(vis, S) ==
    IF S = {} THEN vis
    ELSE LET n == CHOOSE m \in S : TRUE
         IN backpropagate_visits_each(backpropagate_visits(vis, n), S \ {n})

backpropagate_coupled(val, vis, affected_nodes, visit_node) ==
    [value |-> backpropagate_value(val, affected_nodes),
     visits |-> backpropagate_visits_each(vis, DOMAIN affected_nodes)]

\* Variant of backpropagate: the simulated node is rewarded along its path
\* whatever the frontier reported.
backpropagate_rewards_visit(val, vis, affected_nodes, visit_node) ==
    [value |-> walk_value(backpropagate_value(val, affected_nodes),
                          visit_node, 1),
     visits |-> backpropagate_visits(vis, visit_node)]

\* backpropagate(affected_nodes, visit_node): the new value and visits fields.
backpropagate(val, vis, affected_nodes, visit_node) ==
    [value |-> backpropagate_value(val, affected_nodes),
     visits |-> backpropagate_visits(vis, visit_node)]

(***************************************************************************)
(* Initial state: the arguments of the constructor have been chosen and    *)
(* nothing has been constructed yet.                                       *)
(***************************************************************************)
Init ==
    /\ pc = "new"
    /\ err = ""
    /\ nnodes = 0
    /\ parent = <<>>
    /\ children = <<>>
    /\ visits = <<>>
    /\ value = <<>>
    /\ ops = <<>>
    /\ used_actions_acc = <<>>
    /\ used_actions_cost = <<>>
    /\ cost = <<>>
    /\ accuracy = <<>>
    /\ frontier_plans = {}
    /\ available_actions \in Catalogs
    /\ iteration_count = 0
    /\ max_time \in MaxTimes
    /\ start_time = None
    /\ now = 0
    /\ leaf = None
    /\ leaf_acc = None
    /\ leaf_cost = None
    /\ has_leaf_acc = 0
    /\ has_leaf_cost = 0
    /\ menu = {}
    /\ reply = NoReply
    /\ outcome_acc = "none"
    /\ outcome_cost = "none"
    /\ executed = <<>>
    /\ attributed = <<>>
    /\ discarded = <<>>
    /\ iter0 = [visits |-> 0, children |-> 0, cycles |-> 0, affected |-> 0]
    /\ started = 0
    /\ yaml_file_path = <<>>
    /\ parsed_yaml = <<>>
    /\ made_by = <<>>
    /\ probe = "none"
    /\ probe_in = "none"

\* Variant of InitialRootVisits: the constructor leaves root.visits as
\* Node.__init__ set it.
InitialRootVisits_unset == 1 - 1

\* mcts.py:79, self.root.visits = 1.
InitialRootVisits == 1

(***************************************************************************)
(* MCTS.__init__, mcts.py:61-79: create the root, simulate it, discard the *)
(* affected nodes the frontier reports, set root.visits = 1.               *)
(***************************************************************************)
Construct ==
    /\ pc = "new"
    /\ LET o == RootOutcome IN
         /\ nnodes' = 1
         /\ parent' = <<None>>
         /\ children' = <<  <<>>  >>
         /\ ops' = <<RootPlan>>
         /\ yaml_file_path' = <<RootYamlPath>>
         /\ parsed_yaml' = <<[output_path |-> RootOutputPath,
                              bypass_cache |-> FALSE,
                              steps |-> RootSteps]>>
         /\ made_by' = <<[goal |-> "none", directive |-> "none",
                          targets |-> {}]>>
         /\ used_actions_acc' = <<EmptyUsed>>
         /\ used_actions_cost' = <<EmptyUsed>>
         /\ cost' = <<o[1]>>
         /\ accuracy' = <<o[2]>>
         /\ frontier_plans' = add_plan_frontier(root, o[1], o[2])
         /\ attributed' =
              <<SumOver(DOMAIN add_plan_affected(root, o[1], o[2]) \cap {root},
                        add_plan_affected(root, o[1], o[2]))>>
         /\ discarded' = attributed'
    /\ executed' = <<1>>
    /\ value' = <<0>>
    /\ visits' = <<InitialRootVisits>>
    /\ iteration_count' = 0
    /\ pc' = "Initialized"
    /\ UNCHANGED <<err, available_actions, max_time, start_time, now, leaf,
                   leaf_acc, leaf_cost, has_leaf_acc, has_leaf_cost, menu, reply,
                   outcome_acc, outcome_cost, iter0, started, probe,
                   probe_in>>

(***************************************************************************)
(* MCTS.search, mcts.py:88-89: the prologue before the loop.               *)
(***************************************************************************)
Search ==
    /\ pc = "Initialized"
    /\ start_time' = now
    /\ iteration_count' = 0
    /\ pc' = "loop"
    /\ UNCHANGED <<err, nnodes, parent, children, visits, value, ops, yaml_file_path,
                   parsed_yaml, made_by,
                   used_actions_acc, used_actions_cost, cost, accuracy,
                   frontier_plans, available_actions, max_time, now, leaf,
                   leaf_acc, leaf_cost, has_leaf_acc, has_leaf_cost, menu, reply,
                   outcome_acc, outcome_cost, executed, attributed, discarded,
                   iter0, started, probe,
                   probe_in>>

(***************************************************************************)
(* search loop test (mcts.py:94) and the selection phase of                *)
(* mcts_iteration, mcts.py:119-130.  best_child() on a node without        *)
(* children raises, which ends the search.                                 *)
(***************************************************************************)
Select ==
    /\ pc = "loop"
    /\ should_continue
    /\ \E l \in select(root) :
         IF l = None
         THEN /\ pc' = "crashed"
              /\ err' = "ValueError"
              /\ UNCHANGED <<leaf, iter0>>
         ELSE /\ pc' = "expand_acc"
              /\ leaf' = l
              /\ iter0' = [visits |-> visits[root],
                           children |-> Len(children[l]),
                           cycles |-> 0,
                           affected |-> 0]
              /\ UNCHANGED err
    /\ leaf_acc' = None
    /\ leaf_cost' = None
    /\ has_leaf_acc' = 0
    /\ has_leaf_cost' = 0
    /\ outcome_acc' = "none"
    /\ outcome_cost' = "none"
    /\ menu' = {}
    /\ reply' = NoReply
    /\ started' = started + 1
    /\ UNCHANGED <<nnodes, parent, children, visits, value, ops, yaml_file_path,
                   parsed_yaml, made_by,
                   used_actions_acc, used_actions_cost, cost, accuracy,
                   frontier_plans, available_actions, iteration_count,
                   max_time, start_time, now, executed, attributed, discarded,
                   probe,
                   probe_in>>

(***************************************************************************)
(* MCTS.expand(node, optimize_goal), mcts.py:356-506, together with the    *)
(* try/except around it in mcts_iteration, mcts.py:130-140.                *)
(***************************************************************************)
\* Variant of Returned: a RuntimeError of either goal is collected in
\* expansion_errors, so that the iteration returns at mcts.py:142-146 before
\* it simulates anything.
Returned_collects_errors(goal, kind, child) ==
    /\ UNCHANGED err
    /\ IF goal = "acc"
       THEN /\ outcome_acc' = kind
            /\ has_leaf_acc' = IF kind = "ok" THEN 1 ELSE 0
            /\ leaf_acc' = child
            /\ pc' = "expand_cost"
            /\ UNCHANGED <<outcome_cost, has_leaf_cost, leaf_cost>>
       ELSE /\ outcome_cost' = kind
            /\ has_leaf_cost' =
                 IF kind = "ok" /\ outcome_acc = "ok" THEN 1 ELSE 0
            /\ has_leaf_acc' =
                 IF kind = "ok" /\ outcome_acc = "ok" THEN 1 ELSE 0
            /\ leaf_cost' = child
            /\ pc' = "sim_acc"
            /\ UNCHANGED <<outcome_acc, leaf_acc>>

\* How mcts_iteration records the end of expand: a child (kind "ok") or a
\* RuntimeError caught by the except clause (any other kind).
Returned(goal, kind, child) ==
    /\ UNCHANGED err
    /\ IF goal = "acc"
       THEN /\ outcome_acc' = kind
            /\ has_leaf_acc' = IF kind = "ok" THEN 1 ELSE 0
            /\ leaf_acc' = child
            /\ pc' = "expand_cost"
            /\ UNCHANGED <<outcome_cost, has_leaf_cost, leaf_cost>>
       ELSE /\ outcome_cost' = kind
            /\ has_leaf_cost' = IF kind = "ok" THEN 1 ELSE 0
            /\ leaf_cost' = child
            /\ pc' = "sim_acc"
            /\ UNCHANGED <<outcome_acc, has_leaf_acc, leaf_acc>>

\* An exception that is no RuntimeError leaves mcts_iteration and search.
Escaped(goal, kind, exc) ==
    /\ pc' = "crashed"
    /\ err' = exc
    /\ IF goal = "acc"
       THEN outcome_acc' = kind /\ UNCHANGED outcome_cost
       ELSE outcome_cost' = kind /\ UNCHANGED outcome_acc
    /\ UNCHANGED <<has_leaf_acc, has_leaf_cost, leaf_acc, leaf_cost>>

\* Variant of plans_with_child: the child's settings are written into the
\* dictionary of the expanded node, which the child shares.
plans_with_child_aliased(node, child_yaml) ==
    Append([parsed_yaml EXCEPT ![node] = child_yaml], child_yaml)

\* mcts.py:464-476: new_parsed_yaml is a deepcopy of node.parsed_yaml, and
\* only the copy is written to.
plans_with_child(node, child_yaml) == Append(parsed_yaml, child_yaml)

\* Variant of TreeUnchanged: an attempt that raises is counted as a visit of
\* the expanded node.
TreeUnchanged_counts_visit ==
    /\ visits' = [visits EXCEPT ![leaf] = @ + 1]
    /\ UNCHANGED <<nnodes, parent, children, value, ops, yaml_file_path,
                   parsed_yaml, made_by, cost, accuracy,
                   executed, attributed, discarded>>

\* expand raises before it has touched a node, a plan or a file.
TreeUnchanged ==
    UNCHANGED <<nnodes, parent, children, visits, value, ops, yaml_file_path,
                   parsed_yaml, made_by, cost, accuracy,
                executed, attributed, discarded>>

\* Variant of MarkUsed: nothing is recorded on the expanded node.
MarkUsed_skipped(node, goal, targets, directive) == used_actions_acc

\* Lines 439-449: mark the directive used on the expanded node.
MarkUsed(node, goal, targets, directive) ==
    IF goal = "acc"
    THEN [used_actions_acc EXCEPT
             ![node] = mark_action_used(@, targets, directive)]
    ELSE used_actions_acc

MarkUsedCost(node, goal, targets, directive) ==
    IF goal = "acc"
    THEN used_actions_cost
    ELSE [used_actions_cost EXCEPT
             ![node] = mark_action_used(@, targets, directive)]

expand(node, goal) ==
    LET action_options == IF goal = "acc" THEN action_options_acc(node)
                          ELSE action_options_cost(node)
    IN
    /\ menu' = action_options
    /\ IF action_options = {}
       THEN \* lines 384-388 / 403-407: RuntimeError, nothing touched
            /\ Returned(goal, "exhausted", None)
            /\ reply' = NoReply
            /\ TreeUnchanged
            /\ UNCHANGED <<used_actions_acc, used_actions_cost>>
       ELSE \E answer \in Answers :
            LET directive_name == answer[1]
                target_op_list == answer[2]
                instantiated == answer[3]
            IN
            /\ reply' = [directive |-> directive_name,
                         operators |-> target_op_list]
            /\ IF directive_name \notin available_actions
               THEN \* lines 440-442: ValueError
                    /\ Escaped(goal, "unknown_directive", "ValueError")
                    /\ TreeUnchanged
                    /\ UNCHANGED <<used_actions_acc, used_actions_cost>>
               ELSE
                 \/ \* lines 453-462: instantiate gives None, RuntimeError
                    /\ ~instantiated
                    /\ used_actions_acc' =
                         MarkUsed(node, goal, target_op_list, directive_name)
                    /\ used_actions_cost' =
                         MarkUsedCost(node, goal, target_op_list, directive_name)
                    /\ Returned(goal, "instantiate_failed", None)
                    /\ TreeUnchanged
                 \/ \* lines 491-494: the catalog holds no "chaining", the
                    \* assert fails before the child is added
                    /\ instantiated
                    /\ directive_name = "gleaning"
                    /\ "chaining" \notin available_actions
                    /\ used_actions_acc' =
                         MarkUsed(node, goal, target_op_list, directive_name)
                    /\ used_actions_cost' =
                         MarkUsedCost(node, goal, target_op_list, directive_name)
                    /\ Escaped(goal, "assert_failed", "AssertionError")
                    /\ TreeUnchanged
                 \/ \* lines 464-506: the child is created and added
                    \E new_ops \in ChildPlans :
                      LET child == nnodes + 1 IN
                      /\ instantiated
                      /\ directive_name = "gleaning"
                            => "chaining" \in available_actions
                      /\ nnodes' = child
                      /\ parent' = Append(parent, node)
                      /\ children' = Append([children EXCEPT
                                                ![node] = Append(@, child)], <<>>)
                      /\ ops' = Append(ops, new_ops)
                      /\ yaml_file_path' =
                           Append(yaml_file_path,
                                  new_yaml_path(yaml_file_path[node],
                                                Len(children[node]), goal))
                      /\ parsed_yaml' =
                           plans_with_child(
                               node,
                               new_parsed_yaml(parsed_yaml[node],
                                               yaml_file_path[node],
                                               Len(children[node]),
                                               new_ops, target_op_list))
                      /\ made_by' =
                           Append(made_by, [goal |-> goal,
                                            directive |-> directive_name,
                                            targets |-> target_op_list])
                      /\ used_actions_acc' =
                           Append(MarkUsed(node, goal, target_op_list,
                                           directive_name),
                                  child_used_acc(directive_name, target_op_list))
                      /\ used_actions_cost' =
                           Append(MarkUsedCost(node, goal, target_op_list,
                                               directive_name),
                                  child_used_cost(directive_name, target_op_list))
                      /\ visits' = Append(visits, 0)
                      /\ value' = Append(value, 0)
                      /\ cost' = Append(cost, None)
                      /\ accuracy' = Append(accuracy, None)
                      /\ executed' = Append(executed, 0)
                      /\ attributed' = Append(attributed, 0)
                      /\ discarded' = Append(discarded, 0)
                      /\ Returned(goal, "ok", child)

ExpandAcc ==
    /\ pc = "expand_acc"
    /\ expand(leaf, "acc")
    /\ UNCHANGED <<frontier_plans, available_actions, iteration_count,
                   max_time, start_time, now, leaf, iter0, started, probe,
                   probe_in>>

ExpandCost ==
    /\ pc = "expand_cost"
    /\ expand(leaf, "cost")
    /\ UNCHANGED <<frontier_plans, available_actions, iteration_count,
                   max_time, start_time, now, leaf, iter0, started, probe,
                   probe_in>>

(***************************************************************************)
(* MCTS.simulate followed by MCTS.backpropagate, mcts.py:151-160 and       *)
(* 508-538.  execute_plan either yields the realised outcome or raises.    *)
(***************************************************************************)
\* Variant of simulate_backpropagate_outcome: add_plan is called before
\* execute_plan, so the frontier judges the node by the cost and accuracy it
\* has before its execution.
simulate_backpropagate_outcome_inserts_first(node, o) ==
      LET affected_nodes == add_plan_affected(node, None, None) IN
      /\ cost' = [cost EXCEPT ![node] = o[1]]
      /\ accuracy' = [accuracy EXCEPT ![node] = o[2]]
      /\ frontier_plans' = add_plan_frontier(node, None, None)
      /\ value' = backpropagate(value, visits, affected_nodes, node).value
      /\ visits' = backpropagate(value, visits, affected_nodes, node).visits
      /\ executed' = [executed EXCEPT ![node] = @ + 1]
      /\ attributed' = [n \in Nodes |->
                          attributed[n] + IF n \in DOMAIN affected_nodes
                                          THEN affected_nodes[n] ELSE 0]
      /\ iter0' = [iter0 EXCEPT
                     !.cycles = @ + 1,
                     !.affected = @ + Cardinality(DOMAIN affected_nodes)]

\* simulate(node) and backpropagate(affected_nodes, node) when execute_plan
\* realises the outcome o.
simulate_backpropagate_outcome(node, o) ==
      LET affected_nodes == add_plan_affected(node, o[1], o[2]) IN
      /\ cost' = [cost EXCEPT ![node] = o[1]]
      /\ accuracy' = [accuracy EXCEPT ![node] = o[2]]
      /\ frontier_plans' = add_plan_frontier(node, o[1], o[2])
      /\ value' = backpropagate(value, visits, affected_nodes, node).value
      /\ visits' = backpropagate(value, visits, affected_nodes, node).visits
      /\ executed' = [executed EXCEPT ![node] = @ + 1]
      /\ attributed' = [n \in Nodes |->
                          attributed[n] + IF n \in DOMAIN affected_nodes
                                          THEN affected_nodes[n] ELSE 0]
      /\ iter0' = [iter0 EXCEPT
                     !.cycles = @ + 1,
                     !.affected = @ + Cardinality(DOMAIN affected_nodes)]

simulate_backpropagate(node) ==
    \E o \in Outcomes : simulate_backpropagate_outcome(node, o)

ExecutionFailed ==
    /\ pc' = "crashed"
    /\ err' = "ExecutionError"
    /\ UNCHANGED <<cost, accuracy, frontier_plans, value, visits, executed,
                   attributed, iter0, iteration_count, now>>

SimulateAcc ==
    /\ pc = "sim_acc"
    /\ IF has_leaf_acc = 1
       THEN \/ ExecutionFailed
            \/ /\ simulate_backpropagate(leaf_acc)
               /\ pc' = "sim_cost"
               /\ UNCHANGED <<err, iteration_count, now>>
       ELSE /\ pc' = "sim_cost"
            /\ UNCHANGED <<err, cost, accuracy, frontier_plans, value, visits,
                           executed, attributed, iter0, iteration_count, now>>
    /\ UNCHANGED <<nnodes, parent, children, ops, yaml_file_path,
                   parsed_yaml, made_by, used_actions_acc,
                   used_actions_cost, available_actions, max_time, start_time,
                   leaf, leaf_acc,
                   leaf_cost, has_leaf_acc, has_leaf_cost, menu, reply,
                   outcome_acc,
                   outcome_cost, discarded, started, probe,
                   probe_in>>

\* The end of mcts_iteration and line 96 of search; the clock has advanced
\* by one tick while the iteration ran.
IterationDone ==
    /\ pc' = "loop"
    /\ iteration_count' = iteration_count + 1
    /\ now' = now + 1
    /\ UNCHANGED err

SimulateCost ==
    /\ pc = "sim_cost"
    /\ IF has_leaf_cost = 1
       THEN \/ ExecutionFailed
            \/ /\ simulate_backpropagate(leaf_cost)
               /\ IterationDone
       ELSE /\ IterationDone
            /\ UNCHANGED <<cost, accuracy, frontier_plans, value, visits,
                           executed, attributed, iter0>>
    /\ UNCHANGED <<nnodes, parent, children, ops, yaml_file_path,
                   parsed_yaml, made_by, used_actions_acc,
                   used_actions_cost, available_actions, max_time, start_time,
                   leaf, leaf_acc,
                   leaf_cost, has_leaf_acc, has_leaf_cost, menu, reply,
                   outcome_acc,
                   outcome_cost, discarded, started, probe,
                   probe_in>>

(***************************************************************************)
(* search, mcts.py:94-115: the loop test fails and the search returns.     *)
(***************************************************************************)
Finish ==
    /\ pc = "loop"
    /\ ~should_continue
    /\ pc' = "Terminated"
    /\ UNCHANGED <<err, nnodes, parent, children, visits, value, ops, yaml_file_path,
                   parsed_yaml, made_by,
                   used_actions_acc, used_actions_cost, cost, accuracy,
                   frontier_plans, available_actions, iteration_count, max_time,
                   start_time, now,
                   leaf, leaf_acc, leaf_cost, has_leaf_acc, has_leaf_cost,
                   menu, reply, outcome_acc, outcome_cost, executed, attributed,
                   discarded, iter0, started, probe,
                   probe_in>>

Next ==
    \/ Construct
    \/ Search
    \/ Select
    \/ ExpandAcc
    \/ ExpandCost
    \/ SimulateAcc
    \/ SimulateCost
    \/ Finish

Spec == Init /\ [][Next]_vars

\* The controller runs to completion: no step of it is postponed forever.
FairSpec == Spec /\ WF_vars(Next)

(***************************************************************************)
(* Properties.                                                             *)
(***************************************************************************)
\* The number of goal expansions of the last iteration that returned a child.
Succeeded ==
    (IF outcome_acc = "ok" THEN 1 ELSE 0) + (IF outcome_cost = "ok" THEN 1 ELSE 0)

\* An iteration has run to its end and the next loop test is due.
IterationCompleted == pc = "loop" /\ iteration_count > 0

C1_VisitsInvariant ==
    \A n \in Nodes : visits[n] = SumOver(SubtreeOf(n), executed)

C1_BackpropagateStep ==
    \A v \in Nodes :
        (executed'[v] = executed[v] + 1) =>
            \A n \in Nodes :
                visits'[n] = visits[n] + IF n \in AncestorsOrSelf(v) THEN 1 ELSE 0

\* C1: in every reachable state the visits of every node equal the number
\* of simulation events (the root's initial simulation included) on the node
\* or on a descendant of it, and every simulate+backpropagate step raises
\* visits by exactly 1 on the simulated node and on each of its ancestors up
\* to the root, and on no other node.
C1_VisitsCountSimulations ==
    []C1_VisitsInvariant /\ [][C1_BackpropagateStep]_vars

\* C1 witness: a child that was simulated and then expanded twice below it,
\* beside a sibling off that path.
C1_Witness ==
    \E n, m \in Nodes :
        /\ n # root /\ m # n
        /\ parent[m] = root
        /\ visits[n] = 3
        /\ visits[m] = 1
        /\ visits[root] = 5

\* C2 as stated: the value of every node is the sum of all deltas the
\* frontier ever reported for the node or a descendant, the insertion of the
\* root during construction included.
C2_ValueIsSumOfAllDeltas ==
    \A n \in Nodes : value[n] = SumOver(SubtreeOf(n), attributed)

\* C2 amended: the value of every node is the sum of the deltas the frontier
\* reported for the node or a descendant in the insertions made by
\* iterations; the deltas of the root's insertion during construction are
\* discarded and are no part of any value.
C2_ValueIsSumOfBackpropagatedDeltas ==
    [](LET delta == [m \in Nodes |-> attributed[m] - discarded[m]]
       IN  \A n \in Nodes : value[n] = SumOver(SubtreeOf(n), delta))

\* C2 witness: the root was evicted, and a child carries its own delta and
\* that of a descendant.
C2_Witness ==
    /\ root \notin frontier_plans
    /\ \E n \in Nodes \ {root} : value[n] = 2

\* C3: when an iteration has run to its end, the children added under the
\* selected leaf, the simulate+backpropagate cycles and the growth of the
\* root's visits all equal the number of expansions that succeeded, however
\* many nodes the frontier reported as affected.
C3_IterationCounts ==
    IterationCompleted =>
        /\ Len(children[leaf]) - iter0.children = Succeeded
        /\ iter0.cycles = Succeeded
        /\ visits[root] - iter0.visits = Succeeded

\* C3 witness: both expansions succeeded and the frontier reported more
\* affected nodes than there were simulations.
C3_Witness ==
    /\ IterationCompleted
    /\ Succeeded = 2
    /\ visits[root] = iter0.visits + 2
    /\ iter0.affected > 2

\* C3 witness, second case: both expansions succeeded and the frontier
\* reported no affected node at all.
C3_WitnessNoneAffected ==
    /\ IterationCompleted
    /\ Succeeded = 2
    /\ iter0.affected = 0

\* C4: when construction completes, the root plan has been executed, the
\* root is in the frontier, its visits are exactly 1, it has no children and
\* no iteration has run.
C4_Initialized ==
    pc = "Initialized" =>
        /\ nnodes = 1
        /\ executed[root] = 1
        /\ cost[root] # None
        /\ root \in frontier_plans
        /\ visits[root] = 1
        /\ children[root] = <<>>
        /\ iteration_count = 0
        /\ start_time = None
        /\ leaf = None

\* C4 witness: the state Initialized.
C4_Witness ==
    pc = "Initialized" /\ nnodes = 1 /\ visits[root] = 1

\* A measure of the work left: the iterations still allowed, then the
\* phases left in the current iteration.
PhaseRank ==
    CASE pc = "loop" -> 6
      [] pc = "expand_acc" -> 5
      [] pc = "expand_cost" -> 4
      [] pc = "sim_acc" -> 3
      [] pc = "sim_cost" -> 2
      [] OTHER -> 0

WorkLeft ==
    CASE pc = "new" -> 8 * max_iterations + 8
      [] pc = "Initialized" -> 8 * max_iterations + 7
      [] pc = "crashed" -> 0
      [] OTHER -> 8 * (max_iterations - iteration_count) + PhaseRank

\* C5: every search ends, returning or with an error that escaped: until
\* then a step is always possible and every step lowers WorkLeft, which is
\* never negative; a search that returns has run exactly max_iterations
\* iterations; and an iteration in which both expansions failed with
\* exhaustion advances the iteration count by 1.
C5_ExactlyMaxIterations ==
    /\ [](pc \notin {"Terminated", "crashed"} => ENABLED Next)
    /\ [](WorkLeft >= 0)
    /\ [][WorkLeft' < WorkLeft]_vars
    /\ [](pc = "Terminated" =>
              iteration_count = max_iterations /\ started = max_iterations)
    /\ [][(/\ pc = "sim_cost"
            /\ outcome_acc = "exhausted"
            /\ outcome_cost = "exhausted")
              => (pc' = "loop" /\ iteration_count' = iteration_count + 1)]_vars

\* C5 stated as a liveness property, for FairSpec.
C5_EventuallyEnds == <>(pc \in {"Terminated", "crashed"})

\* C5 witness: the search returned and its last iteration failed with
\* exhaustion for both goals.
C5_Witness ==
    /\ pc = "Terminated"
    /\ iteration_count = max_iterations
    /\ outcome_acc = "exhausted"
    /\ outcome_cost = "exhausted"

\* C6 as stated: at the loop test, when max_time is set and the time elapsed
\* since search() started has reached it, should_continue is false.
C6_TimeCutoff ==
    (pc = "loop" /\ max_time # None /\ now - start_time >= max_time)
        => ~should_continue

\* C7: is_fully_explored(node) is true exactly when the node has at least
\* expansion_count children, or every operator of its plan has at least 3
\* directives used for the accuracy goal and at least 1 for the cost goal.
C7_FullyExploredIff ==
    pc = "probed" =>
        (probe <=>
            \/ Len(children[root]) >= expansion_count
            \/ \A op \in ops[root] :
                  /\ Cardinality(used_actions_acc[root][op]) >= 3
                  /\ Cardinality(used_actions_cost[root][op]) >= 1)

\* C7 witness: a node with a non-empty plan and fewer than expansion_count
\* children found fully explored because of its used directives.
C7_Witness ==
    /\ pc = "probed"
    /\ probe
    /\ ops[root] = OpNames
    /\ Len(children[root]) < expansion_count

\* The nodes strictly above n.
ProperAncestors(n) == AncestorsOrSelf(n) \ {n}

\* C8: the node select returns is a node of the tree that is not fully
\* explored, every node above it on the descent is fully explored, and every
\* step of the descent went to a best child.
C8_SelectReturnsUnexplored ==
    pc = "expand_acc" =>
        /\ leaf \in Nodes
        /\ ~is_fully_explored(leaf)
        /\ root \in AncestorsOrSelf(leaf)
        /\ \A m \in ProperAncestors(leaf) : is_fully_explored(m)
        /\ \A m \in AncestorsOrSelf(leaf) \ {root} :
              m \in best_child(parent[m])

\* C8 witness: the descent left the root.
C8_Witness ==
    pc = "expand_acc" /\ leaf # root /\ is_fully_explored(root)

C9_CompletedIteration ==
    IterationCompleted =>
        /\ (outcome_acc = "exhausted" /\ outcome_cost = "ok") =>
              /\ parent[leaf_cost] = leaf
              /\ executed[leaf_cost] = 1
              /\ visits[leaf_cost] = 1
              /\ iter0.cycles = 1
        /\ (outcome_cost = "exhausted" /\ outcome_acc = "ok") =>
              /\ parent[leaf_acc] = leaf
              /\ executed[leaf_acc] = 1
              /\ visits[leaf_acc] = 1
              /\ iter0.cycles = 1

C9_BothAttempted ==
    /\ (pc = "expand_acc" /\ outcome_acc' = "exhausted") =>
          (pc' = "expand_cost" /\ leaf' = leaf)
    /\ (pc = "expand_cost" /\ outcome_cost' = "exhausted") =>
          (pc' = "sim_acc" /\ leaf' = leaf /\ has_leaf_acc' = has_leaf_acc)
    /\ (pc = "expand_cost" /\ outcome_acc = "exhausted"
          /\ outcome_cost' = "ok") =>
          (has_leaf_cost' = 1 /\ parent'[leaf_cost'] = leaf)

\* C9: both expansions are attempted from the same leaf; when the accuracy
\* expansion fails with exhaustion the cost expansion is still attempted and
\* its child, if it yields one, is simulated and backpropagated by the end
\* of the iteration; and symmetrically.
C9_ExhaustionDoesNotBlock ==
    []C9_CompletedIteration /\ [][C9_BothAttempted]_vars

\* C9 witness: an iteration whose accuracy expansion was exhausted and whose
\* cost expansion yielded a child.
C9_Witness ==
    /\ IterationCompleted
    /\ outcome_acc = "exhausted"
    /\ outcome_cost = "ok"
    /\ executed[leaf_cost] = 1

\* C9 witness, symmetric case.
C9_WitnessCostExhausted ==
    /\ IterationCompleted
    /\ outcome_cost = "exhausted"
    /\ outcome_acc = "ok"
    /\ executed[leaf_acc] = 1

\* C10: the menu expand builds for the accuracy goal is exactly the set of
\* (operator, directive) pairs with the operator in the node's plan, the
\* directive in the catalog and not in the node's accuracy used set of that
\* operator, and the expansion fails with exhaustion exactly when that set
\* is empty.
C10_AccuracyMenu ==
    [][pc = "expand_acc" =>
         LET offered == {od \in ops[leaf] \X available_actions :
                            od[2] \notin used_actions_acc[leaf][od[1]]}
         IN /\ menu' = offered
            /\ (outcome_acc' = "exhausted") <=> (offered = {})]_vars

\* C10 witness: an accuracy expansion of a node with operators that failed
\* with exhaustion.
C10_Witness ==
    /\ pc = "expand_cost"
    /\ outcome_acc = "exhausted"
    /\ menu = {}
    /\ ops[leaf] # {}

\* C10 witness, second case: a menu that some used directives have shrunk.
C10_WitnessShrunkMenu ==
    /\ pc = "expand_cost"
    /\ menu # {}
    /\ menu # ops[leaf] \X available_actions

\* C11: the menu expand builds for the cost goal is exactly the set of pairs
\* (operator, "change model") with the operator in the node's plan and
\* "change model" not in the node's cost used set of that operator, it holds
\* no other directive, and the expansion fails with exhaustion exactly when
\* that set is empty.
C11_CostMenu ==
    [][pc = "expand_cost" =>
         LET offered == {od \in ops[leaf] \X {"change model"} :
                            od[2] \notin used_actions_cost[leaf][od[1]]}
         IN /\ menu' = offered
            /\ \A od \in menu' : od[2] = "change model"
            /\ (outcome_cost' = "exhausted") <=> (offered = {})]_vars

\* C11 witness: a cost expansion that failed with exhaustion on a node with
\* operators, all of them marked.
C11_Witness ==
    /\ pc = "sim_acc"
    /\ outcome_cost = "exhausted"
    /\ menu = {}
    /\ ops[leaf] # {}

\* C11 witness, second case: a cost menu that offers some operators of the
\* plan and not others.
C11_WitnessShrunkMenu ==
    /\ pc = "sim_acc"
    /\ menu # {}
    /\ menu # ops[leaf] \X {"change model"}

\* Every directive recorded as used on a node stays recorded.
UsedOnlyGrows ==
    \A n \in Nodes : \A op \in OpNames :
        /\ used_actions_acc[n][op] \subseteq used_actions_acc'[n][op]
        /\ used_actions_cost[n][op] \subseteq used_actions_cost'[n][op]

\* An expand step that got an answer naming a directive of the catalog has
\* the directive recorded, for its own goal and on the expanded node, on
\* every operator the answer names, also when instantiate() then failed and
\* no child was made.
C12_MarkedOnAnswer ==
    (/\ pc \in {"expand_acc", "expand_cost"}
     /\ reply' # NoReply
     /\ reply'.directive \in available_actions) =>
        \A op \in reply'.operators :
            IF pc = "expand_acc"
            THEN reply'.directive \in used_actions_acc'[leaf][op]
            ELSE reply'.directive \in used_actions_cost'[leaf][op]

\* A menu offers no pair recorded as used for its goal on the expanded node.
C12_MenuOmitsUsed ==
    /\ pc = "expand_acc" =>
          \A od \in menu' : od[2] \notin used_actions_acc[leaf][od[1]]
    /\ pc = "expand_cost" =>
          \A od \in menu' : od[2] \notin used_actions_cost[leaf][od[1]]

\* C12: on an answer naming a directive of the catalog, expand records the
\* directive as used for the goal on the expanded node for every operator
\* the answer names, before the directive is instantiated; what is recorded
\* is never removed and no later menu of that goal on that node offers it.
C12_MarksCurrentNode ==
    [][C12_MarkedOnAnswer /\ UsedOnlyGrows /\ C12_MenuOmitsUsed]_vars

\* C12 witness: instantiate() failed in an accuracy expansion and the
\* directive is recorded on the selected leaf all the same.
C12_Witness ==
    /\ pc = "expand_cost"
    /\ outcome_acc = "instantiate_failed"
    /\ \A op \in reply.operators :
          reply.directive \in used_actions_acc[leaf][op]

\* C13 as stated: no two children of one node were made by expansions of
\* the same goal with the same directive and a common target operator.
C13_NoRepeatedApplication ==
    \A c1, c2 \in Nodes \ {root} :
        (/\ c1 # c2
         /\ parent[c1] = parent[c2]
         /\ made_by[c1].goal = made_by[c2].goal
         /\ made_by[c1].directive = made_by[c2].directive)
            => made_by[c1].targets \cap made_by[c2].targets = {}

\* The children made by the directive d.
MadeBy(d) == {c \in Nodes \ {root} : made_by[c].directive = d}

C14_ChildMarked ==
    \A c \in MadeBy("gleaning") : \A op \in made_by[c].targets :
        "chaining" \in used_actions_acc[c][op]

C14_MenuOmitsChaining ==
    (pc = "expand_acc" /\ leaf \in MadeBy("gleaning")) =>
        \A op \in made_by[leaf].targets : <<op, "chaining">> \notin menu'

\* C14: a child made by the directive "gleaning" has "chaining" recorded as
\* used for the accuracy goal on every target operator, from its creation
\* on, and no accuracy menu built for that child offers chaining for those
\* operators.
C14_GleaningMarksChaining ==
    []C14_ChildMarked /\ [][C14_MenuOmitsChaining]_vars

\* C14 witness: the accuracy menu of a child made by gleaning on operator a
\* offers gleaning for a and does not offer chaining.
C14_Witness ==
    /\ pc = "expand_cost"
    /\ leaf \in MadeBy("gleaning")
    /\ "a" \in made_by[leaf].targets
    /\ <<"a", "gleaning">> \in menu
    /\ <<"a", "chaining">> \notin menu

C15_ChildMarked ==
    \A c \in MadeBy("change model") : \A op \in made_by[c].targets :
        /\ "change model" \in used_actions_acc[c][op]
        /\ "change model" \in used_actions_cost[c][op]

C15_MenusOmitChangeModel ==
    (pc \in {"expand_acc", "expand_cost"} /\ leaf \in MadeBy("change model"))
        => \A op \in made_by[leaf].targets :
               <<op, "change model">> \notin menu'

\* C15: a child made by the directive "change model", for either goal, has
\* "change model" recorded as used for the accuracy goal and for the cost
\* goal on every target operator, from its creation on, and neither menu
\* built for that child offers change model for those operators.
C15_ChangeModelMarksBothGoals ==
    []C15_ChildMarked /\ [][C15_MenusOmitChangeModel]_vars

\* C15 witness: a child made by a cost-goal change model on its operator
\* was expanded; its accuracy menu was not empty and its cost menu was.
C15_Witness ==
    /\ pc = "sim_acc"
    /\ leaf \in MadeBy("change model")
    /\ made_by[leaf].goal = "cost"
    /\ ops[leaf] \subseteq made_by[leaf].targets
    /\ outcome_acc # "exhausted"
    /\ outcome_cost = "exhausted"

\* The plan of every node that exists is left as it was.
C16_PlanKept ==
    \A n \in Nodes :
        /\ ops'[n] = ops[n]
        /\ parsed_yaml'[n] = parsed_yaml[n]
        /\ yaml_file_path'[n] = yaml_file_path[n]

C16_OneChildAppended ==
    /\ nnodes' = nnodes + 1
    /\ parent'[nnodes'] = leaf
    /\ children'[nnodes'] = <<>>
    /\ children'[leaf] = Append(children[leaf], nnodes')
    /\ \A n \in Nodes : parent'[n] = parent[n]
    /\ \A n \in Nodes \ {leaf} : children'[n] = children[n]

C16_TreeKept ==
    nnodes' = nnodes /\ parent' = parent /\ children' = children

C16_ExpandStep ==
    pc \in {"expand_acc", "expand_cost"} =>
        /\ C16_PlanKept
        /\ IF (pc = "expand_acc" /\ outcome_acc' = "ok")
               \/ (pc = "expand_cost" /\ outcome_cost' = "ok")
           THEN C16_OneChildAppended
           ELSE C16_TreeKept

\* C16: a step of expand, whether it succeeds or fails, leaves the plan of
\* every existing node, the expanded one included, as it was (operators,
\* output path and settings, file name); when it succeeds its only effect
\* on the shape of the tree is one new childless node whose parent is the
\* expanded node, appended at the end of that node's child list; when it
\* fails the shape of the tree is unchanged.
C16_ExpandKeepsParentPlan ==
    [][C16_ExpandStep]_vars

\* C16 witness: a node below the root was expanded twice with success, and
\* the plan of the second child differs from its own.
C16_Witness ==
    /\ pc = "sim_acc"
    /\ leaf # root
    /\ outcome_acc = "ok"
    /\ outcome_cost = "ok"
    /\ Len(children[leaf]) = 2
    /\ parsed_yaml[leaf_cost] # parsed_yaml[leaf]

\* The ordinal of a child among its siblings: its position in the child
\* list of its parent, which only grows at the end.
Ordinal(c) == CHOOSE k \in DOMAIN children[parent[c]] :
                  children[parent[c]][k] = c

\* The plan name of the parent of c without its ".yaml".
ParentBase(c) == removesuffix(yaml_file_path[parent[c]])

C18_Name(c) ==
    yaml_file_path[c] =
        ParentBase(c) \o <<"_", str(Ordinal(c)), "_", made_by[c].goal, ".yaml">>

\* C18 as stated: the plan of every child made by expansion has a file name
\* built from the parent's plan name, the child's ordinal and the goal tag,
\* an output path built from the same three components, and bypass_cache
\* set.
C18_NameAndOutputFromThree ==
    \A c \in Nodes \ {root} :
        /\ C18_Name(c)
        /\ parsed_yaml[c].output_path =
              ParentBase(c)
                  \o <<"_", str(Ordinal(c)), "_", made_by[c].goal, ".json">>
        /\ parsed_yaml[c].bypass_cache

\* C18 amended: the file name is built from the parent's plan name, the
\* child's ordinal and the goal tag; the output path is built from the
\* parent's plan name and the ordinal alone, without the child's goal tag;
\* and bypass_cache is set.
C18_NameFromThreeOutputFromTwo ==
    [](\A c \in Nodes \ {root} :
          LET base == ParentBase(c)
              ordinal == str(Ordinal(c))
          IN  /\ yaml_file_path[c] =
                    base \o <<"_", ordinal, "_", made_by[c].goal, ".yaml">>
              /\ parsed_yaml[c].output_path =
                    base \o <<"_", ordinal, ".json">>
              /\ parsed_yaml[c].bypass_cache)

\* C18 witness: a second child, made for the cost goal, of a node below the
\* root.
C18_Witness ==
    \E c \in Nodes \ {root} :
        /\ parent[c] # root
        /\ made_by[c].goal = "cost"
        /\ Ordinal(c) = 2
        /\ Len(yaml_file_path[c]) = 10

\* The search is not inside an iteration: it has been constructed, is at
\* the loop test, has returned, or an error has ended it.
BetweenIterations == pc \in {"Initialized", "loop", "Terminated", "crashed"}

\* C19 as stated: no node is ever simulated twice, and whenever the search
\* is not inside an iteration, its end included, every node of the tree has
\* been simulated exactly once: the root by the constructor, every other
\* node in the iteration that created it.
C19_SimulatedExactlyOnce ==
    /\ \A n \in Nodes : executed[n] <= 1
    /\ BetweenIterations => \A n \in Nodes : executed[n] = 1

\* C20 as stated: whenever the search is between two iterations or has
\* stopped, normally or because an error ended it, every node of the tree
\* has had its plan executed and has been inserted into the frontier.
C20_NoUnsimulatedNode ==
    (pc \in {"loop", "Terminated", "crashed"}) =>
        \A n \in Nodes : cost[n] # None /\ accuracy[n] # None

\* C21 as stated: an expansion attempt whose answer names a directive that
\* the catalog does not hold fails without ending the search: the search
\* goes on to the next phase of the iteration.
C21_UnknownDirectiveRecoverable ==
    (outcome_acc = "unknown_directive" \/ outcome_cost = "unknown_directive")
        => (pc # "crashed" /\ err = "")

\* No node is created, simulated or valued, and the frontier is as it was.
C22_NothingHappens ==
    /\ C16_TreeKept
    /\ visits' = visits
    /\ value' = value
    /\ executed' = executed
    /\ cost' = cost
    /\ accuracy' = accuracy
    /\ frontier_plans' = frontier_plans

\* The expand step in which instantiate() gave None, and the simulation
\* phase of that goal later in the iteration.
C22_FailedGoal ==
    /\ (pc = "expand_acc" /\ outcome_acc' = "instantiate_failed") =>
          /\ C22_NothingHappens
          /\ has_leaf_acc' = 0
          /\ pc' = "expand_cost" /\ leaf' = leaf /\ err' = ""
    /\ (pc = "expand_cost" /\ outcome_cost' = "instantiate_failed") =>
          /\ C22_NothingHappens
          /\ has_leaf_cost' = 0 /\ has_leaf_acc' = has_leaf_acc
          /\ pc' = "sim_acc" /\ leaf' = leaf /\ err' = ""
    /\ (pc = "sim_acc" /\ outcome_acc = "instantiate_failed") =>
          /\ C22_NothingHappens
          /\ pc' = "sim_cost"
    /\ (pc = "sim_cost" /\ outcome_cost = "instantiate_failed") =>
          /\ C22_NothingHappens
          /\ pc' = "loop" /\ iteration_count' = iteration_count + 1

\* The child of the other goal is simulated and backpropagated all the same.
C22_OtherGoalSimulated ==
    IterationCompleted =>
        /\ (outcome_acc = "instantiate_failed" /\ outcome_cost = "ok") =>
              /\ executed[leaf_cost] = 1
              /\ visits[leaf_cost] = 1
              /\ Len(children[leaf]) = iter0.children + 1
              /\ iter0.cycles = 1
        /\ (outcome_cost = "instantiate_failed" /\ outcome_acc = "ok") =>
              /\ executed[leaf_acc] = 1
              /\ visits[leaf_acc] = 1
              /\ Len(children[leaf]) = iter0.children + 1
              /\ iter0.cycles = 1

\* C22: when instantiate() yields no operator list, the expansion attempt
\* fails and the iteration goes on: the step creates no node, the goal's
\* simulation phase executes, inserts and backpropagates nothing, the other
\* goal is attempted and its child simulated, and the iteration ends at the
\* loop test with the iteration counted.
C22_InstantiateFailureRecoverable ==
    []C22_OtherGoalSimulated /\ [][C22_FailedGoal]_vars

\* C22 witness: the accuracy expansion failed in instantiate(), the cost
\* expansion of the same iteration made a child that was simulated, and a
\* further iteration is due.
C22_Witness ==
    /\ IterationCompleted
    /\ iteration_count < max_iterations
    /\ outcome_acc = "instantiate_failed"
    /\ outcome_cost = "ok"
    /\ executed[leaf_cost] = 1

\* C22 witness, symmetric case.
C22_WitnessCostFailed ==
    /\ IterationCompleted
    /\ outcome_cost = "instantiate_failed"
    /\ outcome_acc = "ok"
    /\ executed[leaf_acc] = 1

\* The step in which the execution of a child's plan fails.
C23_FailedExecutionStep ==
    (pc \in {"sim_acc", "sim_cost"} /\ err = "" /\ err' = "ExecutionError") =>
        /\ frontier_plans' = frontier_plans
        /\ visits' = visits
        /\ value' = value
        /\ pc' = IF pc = "sim_acc" THEN "sim_cost" ELSE "loop"

\* C23 as stated: when the execution of a child's plan fails, the child is
\* not inserted into the frontier, nothing is backpropagated for it, and
\* the search goes on with the simulation of the sibling or, after the
\* second child, with the loop test of the next iteration.
C23_ExecutionFailureRecoverable ==
    [][C23_FailedExecutionStep]_vars

\* The visits of every node count the node and its proper descendants, a
\* node below the root has been visited, and a parent has been visited more
\* often than each of its children.
C30_VisitsAtBoundary ==
    (pc \in {"Initialized", "loop", "Terminated"} /\ err = "") =>
        \A n \in Nodes :
            /\ visits[n] = 1 + Cardinality(SubtreeOf(n) \ {n})
            /\ n # root =>
                  /\ visits[n] >= 1
                  /\ visits[parent[n]] > visits[n]

\* C30: at every iteration boundary of a search in which no error escaped
\* (after construction, at each loop test and after the return), every node
\* has visits = 1 + the number of its proper descendants, every node below
\* the root has at least one visit, and every parent has strictly more
\* visits than each of its children.
C30_VisitsCountSubtree == []C30_VisitsAtBoundary

\* C30 witness: at a loop test the tree has a node two levels below the
\* root, whose parent has been visited twice or more.
C30_Witness ==
    /\ pc = "loop"
    /\ err = ""
    /\ \E n \in Nodes \ {root} :
          /\ parent[n] # root
          /\ visits[n] = 1
          /\ visits[parent[n]] >= 2
          /\ visits[root] = nnodes

\* C31 as stated: no node of the tree ever has more than expansion_count
\* children, also after a leaf with expansion_count - 1 children was selected
\* and the expansions of both goals succeeded.
C31_BranchingBounded ==
    \A n \in Nodes : Len(children[n]) <= expansion_count

\* The expand step of the goal in which instantiate() gave None.
C33_FailedAcc == pc = "expand_acc" /\ outcome_acc' = "instantiate_failed"

C33_FailedCost == pc = "expand_cost" /\ outcome_cost' = "instantiate_failed"

\* The child lists, the plans and their files are as before the attempt.
C33_ChildrenAndPlanKept ==
    /\ nnodes' = nnodes
    /\ children' = children
    /\ ops' = ops
    /\ parsed_yaml' = parsed_yaml
    /\ yaml_file_path' = yaml_file_path

\* C33 as stated: the failed attempt leaves the used-action mappings of both
\* goals, the child list and the plan of the expanded node as they were, and
\* the failed (operator, directive) choice is in the menu that the goal
\* would be offered next.
C33_FailedAttemptLeavesNode ==
    [][(C33_FailedAcc \/ C33_FailedCost) =>
          /\ C33_ChildrenAndPlanKept
          /\ used_actions_acc' = used_actions_acc
          /\ used_actions_cost' = used_actions_cost
          /\ C33_FailedAcc =>
                \A op \in reply'.operators \cap ops[leaf] :
                    <<op, reply'.directive>> \in action_options_acc(leaf)'
          /\ C33_FailedCost =>
                \A op \in reply'.operators \cap ops[leaf] :
                    <<op, reply'.directive>> \in action_options_cost(leaf)']_vars

\* The used-action mapping after the directive d was recorded on the node
\* for the operators of targets, nothing else being changed.
C33_Recorded(used, node, targets, d) ==
    [n \in Nodes |->
        [op \in OpNames |->
            IF n = node /\ op \in targets THEN used[n][op] \cup {d}
            ELSE used[n][op]]]

\* C33: an expansion attempt that fails because instantiate() gave None
\* leaves the child list and the plan of the expanded node, and every other
\* node, as they were; of the used-action mappings the one of the other goal
\* is unchanged, while the one of the attempted goal has gained the answered
\* directive for each target operator, so that the failed choice is absent
\* from the menu that the goal is offered next on that node.
C33_FailedAttemptKeepsMarks ==
    [][/\ C33_FailedAcc =>
            /\ C33_ChildrenAndPlanKept
            /\ used_actions_cost' = used_actions_cost
            /\ used_actions_acc' =
                 C33_Recorded(used_actions_acc, leaf, reply'.operators,
                              reply'.directive)
            /\ \A op \in reply'.operators :
                   <<op, reply'.directive>> \notin action_options_acc(leaf)'
       /\ C33_FailedCost =>
            /\ C33_ChildrenAndPlanKept
            /\ used_actions_acc' = used_actions_acc
            /\ used_actions_cost' =
                 C33_Recorded(used_actions_cost, leaf, reply'.operators,
                              reply'.directive)
            /\ \A op \in reply'.operators :
                   <<op, reply'.directive>> \notin action_options_cost(leaf)']_vars

\* C33 witness: the accuracy expansion of the leaf has just failed in
\* instantiate(); the leaf has no child and bears the answered directive on
\* each target operator.
C33_Witness ==
    /\ pc = "expand_cost"
    /\ outcome_acc = "instantiate_failed"
    /\ reply.operators # {}
    /\ children[leaf] = <<>>
    /\ \A op \in reply.operators : reply.directive \in used_actions_acc[leaf][op]

\* C33 witness: in the iteration after a failed attempt on the root, the
\* accuracy menu of the root is not empty and offers the failed directive
\* for no operator.
C33_WitnessLaterMenu ==
    /\ pc = "expand_cost"
    /\ iteration_count = 1
    /\ leaf = root
    /\ children[root] = <<>>
    /\ menu # {}
    /\ \A op \in ops[root] :
          /\ "change model" \in used_actions_acc[root][op]
          /\ <<op, "change model">> \notin menu

\* The expand step that ends with exhaustion: the menu of the goal is empty.
C34_ExhaustedStep ==
    \/ pc = "expand_acc" /\ outcome_acc' = "exhausted"
    \/ pc = "expand_cost" /\ outcome_cost' = "exhausted"

\* C34: an expansion attempt that fails with exhaustion has no effect: the
\* oracle gives no answer, no plan file is named or written, no node is
\* created, and the tree, the used-action mappings, the visits and values of
\* every node, the executed outcomes and the frontier are as they were.
C34_ExhaustionHasNoEffect ==
    [][C34_ExhaustedStep =>
          /\ menu' = {}
          /\ reply' = NoReply
          /\ nnodes' = nnodes
          /\ parent' = parent
          /\ children' = children
          /\ ops' = ops
          /\ yaml_file_path' = yaml_file_path
          /\ parsed_yaml' = parsed_yaml
          /\ used_actions_acc' = used_actions_acc
          /\ used_actions_cost' = used_actions_cost
          /\ visits' = visits
          /\ value' = value
          /\ cost' = cost
          /\ accuracy' = accuracy
          /\ executed' = executed
          /\ frontier_plans' = frontier_plans
          /\ err' = ""]_vars

\* C34 witness: the cost expansion of a leaf has just failed with
\* exhaustion after the accuracy expansion of the same leaf was answered by
\* the oracle.
C34_Witness ==
    /\ pc = "sim_acc"
    /\ outcome_cost = "exhausted"
    /\ outcome_acc \in {"ok", "instantiate_failed"}
    /\ menu = {}
    /\ reply = NoReply
    /\ \A op \in ops[leaf] : used_actions_cost[leaf][op] # {}

\* C34 witness: the accuracy expansion has just failed with exhaustion.
C34_WitnessAcc ==
    /\ pc = "expand_cost"
    /\ outcome_acc = "exhausted"
    /\ reply = NoReply
    /\ \A op \in ops[leaf] : available_actions \subseteq used_actions_acc[leaf][op]

\* The expand step of a goal that applied the answered choice: a child was
\* made from it.
C35_AppliedAcc == pc = "expand_acc" /\ outcome_acc' = "ok"

C35_AppliedCost == pc = "expand_cost" /\ outcome_cost' = "ok"

\* C35 as stated: every (operator, directive) choice that an expansion
\* applies belongs to the menu that was offered for that expansion: each
\* target operator is an operator of the plan of the expanded node and its
\* pair with the answered directive is in the menu; an expansion of the cost
\* goal applies the change-model directive only.
C35_AppliedChoiceInMenu ==
    [][/\ (C35_AppliedAcc \/ C35_AppliedCost) =>
            \A op \in reply'.operators :
                /\ op \in ops[leaf]
                /\ <<op, reply'.directive>> \in menu'
       /\ C35_AppliedCost => reply'.directive = "change model"]_vars

\* No two nodes of the tree have the same plan file name, and no two have
\* the same output-artifact path.
C37_PairwiseDistinct ==
    \A n1, n2 \in Nodes :
        n1 # n2 =>
            /\ yaml_file_path[n1] # yaml_file_path[n2]
            /\ parsed_yaml[n1].output_path # parsed_yaml[n2].output_path

AllDirectives == {"chaining", "gleaning", "change model"}
CostDirectives == {"gleaning", "change model"}

InitExplored ==
    \E k \in 0 .. expansion_count + 1,
       plan \in SUBSET OpNames,
       uacc \in [OpNames -> SUBSET AllDirectives],
       ucost \in [OpNames -> SUBSET CostDirectives] :
        /\ pc = "probe"
        /\ err = ""
        /\ nnodes = k + 1
        /\ parent = [i \in 1 .. k + 1 |-> IF i = 1 THEN None ELSE root]
        /\ children = [i \in 1 .. k + 1 |->
                          IF i = 1 THEN [j \in 1 .. k |-> j + 1] ELSE <<>>]
        /\ visits = [i \in 1 .. k + 1 |-> IF i = 1 THEN k + 1 ELSE 1]
        /\ value = [i \in 1 .. k + 1 |-> IF i = 1 THEN k ELSE 1]
        /\ ops = [i \in 1 .. k + 1 |-> IF i = 1 THEN plan ELSE RootPlan]
        /\ yaml_file_path = [i \in 1 .. k + 1 |->
                                IF i = 1 THEN RootYamlPath
                                ELSE new_yaml_path(RootYamlPath, i - 2, "acc")]
        /\ parsed_yaml = [i \in 1 .. k + 1 |->
                             [output_path |->
                                 IF i = 1 THEN RootOutputPath
                                 ELSE new_output_path(RootYamlPath, i - 2),
                              bypass_cache |-> i # 1,
                              steps |-> RootSteps]]
        /\ made_by = [i \in 1 .. k + 1 |->
                         [goal |-> IF i = 1 THEN "none" ELSE "acc",
                          directive |-> "none", targets |-> {}]]
        /\ used_actions_acc = [i \in 1 .. k + 1 |->
                                  IF i = 1 THEN uacc ELSE EmptyUsed]
        /\ used_actions_cost = [i \in 1 .. k + 1 |->
                                   IF i = 1 THEN ucost ELSE EmptyUsed]
        /\ cost = [i \in 1 .. k + 1 |-> RootOutcome[1]]
        /\ accuracy = [i \in 1 .. k + 1 |-> RootOutcome[2]]
        /\ frontier_plans = 1 .. k + 1
        /\ available_actions = AllDirectives
        /\ iteration_count = 0
        /\ max_time = None
        /\ start_time = 0
        /\ now = 0
        /\ leaf = None
        /\ leaf_acc = None
        /\ leaf_cost = None
        /\ has_leaf_acc = 0
        /\ has_leaf_cost = 0
        /\ menu = {}
        /\ reply = NoReply
        /\ outcome_acc = "none"
        /\ outcome_cost = "none"
        /\ executed = [i \in 1 .. k + 1 |-> 1]
        /\ attributed = [i \in 1 .. k + 1 |-> 1]
        /\ discarded = [i \in 1 .. k + 1 |-> IF i = 1 THEN 1 ELSE 0]
        /\ iter0 = [visits |-> 0, children |-> 0, cycles |-> 0,
                    affected |-> 0]
        /\ started = 0
        /\ probe = "none"
        /\ probe_in = "none"

ProbeFullyExplored ==
    /\ pc = "probe"
    /\ probe' = is_fully_explored(root)
    /\ pc' = "probed"
    /\ UNCHANGED <<err, nnodes, parent, children, visits, value, ops, yaml_file_path,
                   parsed_yaml, made_by,
                   used_actions_acc, used_actions_cost, cost, accuracy,
                   frontier_plans, available_actions, iteration_count,
                   max_time, start_time, now, leaf, leaf_acc, leaf_cost,
                   has_leaf_acc, has_leaf_cost, menu, reply,
                   outcome_acc,
                   outcome_cost, executed, attributed, discarded, iter0,
                   started, probe_in>>

NextExplored == ProbeFullyExplored

SpecExplored == InitExplored /\ [][NextExplored]_vars

(***************************************************************************)
(* update_pipeline applied to arbitrary arguments: up to MaxSteps steps of *)
(* up to MaxStepLen operator references each, a target list without        *)
(* repetitions and a list of new operators.                                *)
(***************************************************************************)
MaxSteps == 2
MaxStepLen == 2

SeqsUpTo(S, n) == UNION {[1 .. k -> S] : k \in 0 .. n}

StepLists == SeqsUpTo(SeqsUpTo(OpNames, MaxStepLen), MaxSteps) \ {<<>>}
TargetLists ==
    {t \in SeqsUpTo(OpNames, Cardinality(OpNames)) :
        Cardinality(Range(t)) = Len(t)}
NewOpsLists == {<<>>, <<"x">>, <<"x", "y">>, <<"y", "x">>,
                <<"x", NoName, "y">>}

\* Everything but the position and the two probe variables.
search_vars ==
    <<err, nnodes, parent, children, visits, value, ops, yaml_file_path,
      parsed_yaml, made_by, used_actions_acc, used_actions_cost, cost,
      accuracy, frontier_plans, available_actions, iteration_count, max_time,
      start_time, now, leaf, leaf_acc, leaf_cost, has_leaf_acc, has_leaf_cost,
      menu, reply, outcome_acc, outcome_cost, executed, attributed, discarded,
      iter0, started>>

\* No search has been constructed.
NoSearch ==
    /\ err = ""
    /\ nnodes = 0
    /\ parent = <<>>
    /\ children = <<>>
    /\ visits = <<>>
    /\ value = <<>>
    /\ ops = <<>>
    /\ yaml_file_path = <<>>
    /\ parsed_yaml = <<>>
    /\ made_by = <<>>
    /\ used_actions_acc = <<>>
    /\ used_actions_cost = <<>>
    /\ cost = <<>>
    /\ accuracy = <<>>
    /\ frontier_plans = {}
    /\ available_actions = AllDirectives
    /\ iteration_count = 0
    /\ max_time = None
    /\ start_time = None
    /\ now = 0
    /\ leaf = None
    /\ leaf_acc = None
    /\ leaf_cost = None
    /\ has_leaf_acc = 0
    /\ has_leaf_cost = 0
    /\ menu = {}
    /\ reply = NoReply
    /\ outcome_acc = "none"
    /\ outcome_cost = "none"
    /\ executed = <<>>
    /\ attributed = <<>>
    /\ discarded = <<>>
    /\ iter0 = [visits |-> 0, children |-> 0, cycles |-> 0, affected |-> 0]
    /\ started = 0

InitPipeline ==
    /\ NoSearch
    /\ pc = "probe_pipeline"
    /\ probe = "none"
    /\ probe_in \in [steps : StepLists,
                      new_ops_list : NewOpsLists,
                      target_ops : TargetLists]

ProbeUpdatePipeline ==
    /\ pc = "probe_pipeline"
    /\ probe' = update_pipeline(probe_in.steps, probe_in.new_ops_list,
                                probe_in.target_ops)
    /\ pc' = "probed_pipeline"
    /\ UNCHANGED <<search_vars, probe_in>>

NextPipeline == ProbeUpdatePipeline

SpecPipeline == InitPipeline /\ [][NextPipeline]_vars

\* The step lists each target operator once and nothing else.
ReferencesExactly(step_ops, target_ops) ==
    /\ target_ops # <<>>
    /\ Range(step_ops) = Range(target_ops)
    /\ Len(step_ops) = Len(target_ops)

\* C17: after update_pipeline, every step whose operations list referenced
\* exactly the target operators (each once, in any order) references the
\* names of the operators of the list the directive produced, in the order
\* of that list, and nothing else.
C17_TargetStepRewritten ==
    pc = "probed_pipeline" =>
        \A i \in DOMAIN probe_in.steps :
            ReferencesExactly(probe_in.steps[i], probe_in.target_ops) =>
                probe[i] = op_names_of(probe_in.new_ops_list)

\* C17 witness: a step referencing the two targets in the other order was
\* rewritten to the two new names, beside a step that referenced one
\* target only.
C17_Witness ==
    /\ pc = "probed_pipeline"
    /\ probe_in.target_ops = <<"b", "a">>
    /\ probe_in.steps = << <<"a", "b">>, <<"a">> >>
    /\ probe_in.new_ops_list = <<"x", "y">>
    /\ probe[1] = <<"x", "y">>

\* The references of a step that name an operator of the set S, in order.
RECURSIVE Restrict(_, _)
Restrict(step_ops, S) ==
    IF step_ops = <<>> THEN <<>>
    ELSE (IF Head(step_ops) \in S THEN <<Head(step_ops)>> ELSE <<>>)
         \o Restrict(Tail(step_ops), S)

\* C36 as stated: update_pipeline changes only the references to target
\* operators: in every step the names that are no target operator are all
\* still referenced after the rewrite, in their original relative order,
\* and a step that references no target operator keeps its operations list.
C36_OtherReferencesKept ==
    (pc = "probed_pipeline" /\ probe_in.target_ops # <<>>) =>
        \A i \in DOMAIN probe_in.steps :
            LET step_ops == probe_in.steps[i]
                others == Range(step_ops) \ Range(probe_in.target_ops)
            IN  /\ Restrict(probe[i], others) = Restrict(step_ops, others)
                /\ Range(step_ops) \cap Range(probe_in.target_ops) = {}
                      => probe[i] = step_ops

(***************************************************************************)
(* simulate and backpropagate applied to arbitrary trees and outcomes: a   *)
(* constructed search whose tree grows to MaxPlans nodes, each new node    *)
(* attached under any simulated node and then simulated with any outcome   *)
(* of a grid that holds tied, dominating and incomparable pairs.           *)
(***************************************************************************)
MaxPlans == 4

FrontierOutcomes == {<<1, 1>>, <<1, 2>>, <<2, 1>>, <<2, 2>>}

\* Nothing has been inserted by a Probe action yet.
NoInsertion == [node |-> None, outcome |-> <<0, 0>>]

Unsimulated == {n \in Nodes : executed[n] = 0}

\* The state MCTS.__init__ leaves, for a root plan of any outcome.
InitFrontier ==
    \E o \in FrontierOutcomes :
        /\ pc = "probe_frontier"
        /\ err = ""
        /\ nnodes = 1
        /\ parent = <<None>>
        /\ children = <<  <<>>  >>
        /\ visits = <<InitialRootVisits>>
        /\ value = <<0>>
        /\ ops = <<RootPlan>>
        /\ yaml_file_path = <<RootYamlPath>>
        /\ parsed_yaml = <<[output_path |-> RootOutputPath,
                            bypass_cache |-> FALSE,
                            steps |-> RootSteps]>>
        /\ made_by = <<[goal |-> "none", directive |-> "none",
                        targets |-> {}]>>
        /\ used_actions_acc = <<EmptyUsed>>
        /\ used_actions_cost = <<EmptyUsed>>
        /\ cost = <<o[1]>>
        /\ accuracy = <<o[2]>>
        /\ frontier_plans = {root}
        /\ available_actions = AllDirectives
        /\ iteration_count = 0
        /\ max_time = None
        /\ start_time = None
        /\ now = 0
        /\ leaf = None
        /\ leaf_acc = None
        /\ leaf_cost = None
        /\ has_leaf_acc = 0
        /\ has_leaf_cost = 0
        /\ menu = {}
        /\ reply = NoReply
        /\ outcome_acc = "none"
        /\ outcome_cost = "none"
        /\ executed = <<1>>
        /\ attributed = <<1>>
        /\ discarded = <<1>>
        /\ iter0 = [visits |-> 0, children |-> 0, cycles |-> 0,
                    affected |-> 0]
        /\ started = 0
        /\ probe = <<>>
        /\ probe_in = NoInsertion

\* A child is created under a simulated node and added to it, as expand
\* does at mcts.py:490-503; at most the two children of one iteration wait
\* for their simulation.
ProbeAttach ==
    /\ pc = "probe_frontier"
    /\ nnodes < MaxPlans
    /\ Cardinality(Unsimulated) < 2
    /\ \E node \in Nodes \ Unsimulated :
         LET child == nnodes + 1 IN
         /\ Unsimulated # {} => \A n \in Unsimulated : parent[n] = node
         /\ nnodes' = child
         /\ parent' = Append(parent, node)
         /\ children' = Append([children EXCEPT ![node] = Append(@, child)],
                               <<>>)
         /\ ops' = Append(ops, ops[node])
         /\ yaml_file_path' =
              Append(yaml_file_path,
                     new_yaml_path(yaml_file_path[node], Len(children[node]),
                                   "acc"))
         /\ parsed_yaml' =
              Append(parsed_yaml,
                     [parsed_yaml[node] EXCEPT
                         !.output_path = new_output_path(yaml_file_path[node],
                                                         Len(children[node])),
                         !.bypass_cache = TRUE])
         /\ made_by' = Append(made_by, [goal |-> "acc", directive |-> "none",
                                        targets |-> {}])
         /\ used_actions_acc' = Append(used_actions_acc, EmptyUsed)
         /\ used_actions_cost' = Append(used_actions_cost, EmptyUsed)
         /\ visits' = Append(visits, 0)
         /\ value' = Append(value, 0)
         /\ cost' = Append(cost, None)
         /\ accuracy' = Append(accuracy, None)
         /\ executed' = Append(executed, 0)
         /\ attributed' = Append(attributed, 0)
         /\ discarded' = Append(discarded, 0)
    /\ UNCHANGED <<pc, err, frontier_plans, available_actions, iteration_count,
                   max_time, start_time, now, leaf, leaf_acc, leaf_cost,
                   has_leaf_acc, has_leaf_cost, menu, reply, outcome_acc,
                   outcome_cost, iter0, started, probe, probe_in>>

\* simulate and backpropagate of a node that waits for it, mcts.py:154-155;
\* probe records the affected nodes add_plan returned.
ProbeSimulate ==
    /\ pc = "probe_frontier"
    /\ \E node \in Unsimulated : \E o \in FrontierOutcomes :
         /\ simulate_backpropagate_outcome(node, o)
         /\ probe' = add_plan_affected(node, o[1], o[2])
         /\ probe_in' = [node |-> node, outcome |-> o]
    /\ UNCHANGED <<pc, err, nnodes, parent, children, ops, yaml_file_path,
                   parsed_yaml, made_by, used_actions_acc, used_actions_cost,
                   available_actions, iteration_count, max_time, start_time,
                   now, leaf, leaf_acc, leaf_cost, has_leaf_acc,
                   has_leaf_cost, menu, reply, outcome_acc, outcome_cost,
                   discarded, started>>

NextFrontier ==
    \/ ProbeAttach
    \/ ProbeSimulate

SpecFrontier == InitFrontier /\ [][NextFrontier]_vars

\* No member of the frontier is at least as good as another on both axes,
\* two members tied on both excepted.
C24_NoDominatedMember ==
    \A A, B \in frontier_plans :
        (A # B /\ cost[A] <= cost[B] /\ accuracy[A] >= accuracy[B]) =>
            (cost[A] = cost[B] /\ accuracy[A] = accuracy[B])

\* The insertion of a plan tied on both axes with a member keeps both.
C24_TieRetained ==
    \A n \in Nodes :
        (executed'[n] = executed[n] + 1) =>
            \A m \in frontier_plans :
                (cost[m] = cost'[n] /\ accuracy[m] = accuracy'[n]) =>
                    (m \in frontier_plans' /\ n \in frontier_plans')

\* C24: after any sequence of insertions the frontier holds no two distinct
\* plans A and B with cost_A <= cost_B and accuracy_A >= accuracy_B unless
\* cost and accuracy are both tied, and the insertion of a plan tied on both
\* with a member leaves both in the frontier.
C24_FrontierNonDominated ==
    []C24_NoDominatedMember /\ [][C24_TieRetained]_vars

\* C24 witness: after an eviction the frontier holds two plans tied on both
\* axes and a third that is dearer and more accurate than they are.
C24_Witness ==
    /\ Nodes \ (frontier_plans \cup Unsimulated) # {}
    /\ \E A, B, C \in frontier_plans :
          /\ A # B
          /\ cost[A] = cost[B] /\ accuracy[A] = accuracy[B]
          /\ cost[C] > cost[A] /\ accuracy[C] > accuracy[A]

\* Some member of the frontier is at least as good as a plan of cost c and
\* accuracy a on both axes and better on one.
DominatedByMember(c, a) ==
    \E M \in frontier_plans :
        /\ cost[M] <= c
        /\ accuracy[M] >= a
        /\ (cost[M] < c \/ accuracy[M] > a)

C25_DominatedStep ==
    \A n \in Nodes :
        (/\ executed'[n] = executed[n] + 1
         /\ DominatedByMember(cost'[n], accuracy'[n])) =>
            /\ frontier_plans' = frontier_plans
            /\ DOMAIN probe' = {}
            /\ value' = value
            /\ \A m \in Nodes :
                  visits'[m] =
                      visits[m] + IF m \in AncestorsOrSelf(n) THEN 1 ELSE 0

\* C25: the simulation of a plan that a member of the frontier dominates
\* leaves the frontier as it was and reports no affected node, and the
\* backpropagation that follows changes the value of no node and raises the
\* visits by one on the simulated node and each of its ancestors and on no
\* other node.
C25_DominatedInsertIsNoOp ==
    [][C25_DominatedStep]_vars

\* C25 witness: the plan simulated last, a grandchild of the root or deeper,
\* was dominated: nothing was reported and it is no member of the frontier.
C25_Witness ==
    /\ probe_in.node # None
    /\ DOMAIN probe = {}
    /\ probe_in.node \notin frontier_plans
    /\ parent[probe_in.node] # root
    /\ visits[probe_in.node] = 1
    /\ \E m \in Nodes : value[m] # 0

\* The members of the frontier that a plan of cost c and accuracy a is at
\* least as good as on both axes and better than on one.
MembersDominatedBy(c, a) ==
    {M \in frontier_plans :
        /\ c <= cost[M]
        /\ a >= accuracy[M]
        /\ (c < cost[M] \/ a > accuracy[M])}

C26_EvictsTwoStep ==
    \A n \in Nodes :
        LET E == MembersDominatedBy(cost'[n], accuracy'[n])
            delta == probe'
        IN  (/\ executed'[n] = executed[n] + 1
             /\ ~DominatedByMember(cost'[n], accuracy'[n])
             /\ Cardinality(E) = 2) =>
                /\ frontier_plans' = (frontier_plans \ E) \cup {n}
                /\ DOMAIN delta = E \cup {n}
                /\ delta[n] > 0
                /\ \A e \in E : delta[e] < 0
                /\ \A m \in Nodes :
                      value'[m] - value[m] =
                          SumOver(SubtreeOf(m) \cap DOMAIN delta, delta)

\* C26: the simulation of a plan that no member dominates and that
\* dominates exactly two members evicts both and adds the plan; the frontier
\* reports the two with a negative delta and the plan with a positive one,
\* and the backpropagation that follows changes the value of every node by
\* the sum of the deltas of the affected nodes that are the node itself or
\* lie below it: the nodes on the parent chains of the three by that sum,
\* every other node by nothing.
C26_DominatingTwoEvictsBoth ==
    [][C26_EvictsTwoStep]_vars

\* C26 witness: the plan simulated last evicted two members; the three
\* nodes lie on three different branches below the root, whose value the
\* step lowered to zero.
C26_Witness ==
    /\ probe_in.node # None
    /\ Cardinality(DOMAIN probe) = 3
    /\ probe_in.node \in frontier_plans
    /\ \A e \in DOMAIN probe : parent[e] = root
    /\ \A e \in DOMAIN probe \ {probe_in.node} :
          probe[e] < 0 /\ e \notin frontier_plans /\ value[e] = 0
    /\ value[probe_in.node] = 1
    /\ value[root] = 0

(***************************************************************************)
(* ChainingInstantiateSchema.validate_chain, instantiate_schemas.py:71-105,*)
(* applied to arbitrary arguments.  A prompt is the list of its template   *)
(* placeholders, each a pair <<namespace, key>>: <<"input", "x">> stands   *)
(* for {{ input.x }}.  An operator is a record of prompt and output_keys.  *)
(***************************************************************************)
MaxChain == 2

Keys == {"x", "y"}

Prompts == {<<>>,
            << <<"input", "x">> >>,
            << <<"output", "x">> >>,
            << <<"output", "y">>, <<"input", "y">>, <<"input", "x">> >>}

OutputKeyLists == {<<>>, <<"x">>, <<"x", "y">>, <<"y", "x">>}

RequiredKeyLists == {<<>>, <<"x">>, <<"y">>, <<"x", "y">>}

MapOpConfigs == [prompt : Prompts, output_keys : OutputKeyLists]

\* re.search(r"\{\{\s*input\." + re.escape(key) + r"\s*\}\}", prompt): the
\* prompt is scanned for a placeholder of the namespace input with this key.
RECURSIVE re_search_input(_, _)
re_search_input(key, prompt) ==
    IF prompt = <<>> THEN FALSE
    ELSE IF Head(prompt) = <<"input", key>> THEN TRUE
    ELSE re_search_input(key, Tail(prompt))

\* Lines 91-96: the loop over required_input_keys; FALSE stands for the
\* ValueError of line 94.
RECURSIVE input_keys_referenced(_, _)
input_keys_referenced(new_ops, required_input_keys) ==
    IF required_input_keys = <<>> THEN TRUE
    ELSE IF ~(\E i \in DOMAIN new_ops :
                 re_search_input(Head(required_input_keys), new_ops[i].prompt))
         THEN FALSE
    ELSE input_keys_referenced(new_ops, Tail(required_input_keys))

\* Line 99.
final_output_keys(new_ops) ==
    IF new_ops # <<>> THEN new_ops[Len(new_ops)].output_keys ELSE <<>>

\* Variant of validate_chain: the output keys are compared as lists.
validate_chain_ordered(new_ops, required_input_keys, expected_output_keys) ==
    IF ~input_keys_referenced(new_ops, required_input_keys) THEN "ValueError"
    ELSE IF final_output_keys(new_ops) # expected_output_keys
         THEN "ValueError"
    ELSE "None"

\* validate_chain: "None" when it returns, "ValueError" when it raises.
validate_chain(new_ops, required_input_keys, expected_output_keys) ==
    IF ~input_keys_referenced(new_ops, required_input_keys) THEN "ValueError"
    ELSE IF Range(final_output_keys(new_ops)) # Range(expected_output_keys)
         THEN "ValueError"
    ELSE "None"

InitChain ==
    /\ NoSearch
    /\ pc = "probe_chain"
    /\ probe = "none"
    /\ probe_in \in [new_ops : SeqsUpTo(MapOpConfigs, MaxChain),
                      required_input_keys : RequiredKeyLists,
                      expected_output_keys : OutputKeyLists]

ProbeValidateChain ==
    /\ pc = "probe_chain"
    /\ probe' = validate_chain(probe_in.new_ops, probe_in.required_input_keys,
                               probe_in.expected_output_keys)
    /\ pc' = "probed_chain"
    /\ UNCHANGED <<search_vars, probe_in>>

NextChain == ProbeValidateChain

SpecChain == InitChain /\ [][NextChain]_vars

\* The set of the output keys of the last operator, empty for no operator.
LastOutputKeys(new_ops) ==
    IF new_ops = <<>> THEN {}
    ELSE Range(new_ops[Len(new_ops)].output_keys)

\* C27: validate_chain returns without raising exactly when every required
\* input key occurs as {{ input.key }} in the prompt of at least one
\* operator of new_ops and the set of the output keys of the last operator
\* (empty when there is no operator) is the set of the expected output keys;
\* in every other case it raises ValueError.
C27_ValidateChainIff ==
    pc = "probed_chain" =>
        /\ probe \in {"None", "ValueError"}
        /\ probe = "None" <=>
              /\ \A key \in Range(probe_in.required_input_keys) :
                    \E i \in DOMAIN probe_in.new_ops :
                        <<"input", key>> \in Range(probe_in.new_ops[i].prompt)
              /\ LastOutputKeys(probe_in.new_ops) =
                    Range(probe_in.expected_output_keys)

\* C27 witness: a chain of two operators accepted although the last one
\* lists its output keys in another order than expected, and the two
\* required keys are referenced by different operators.
C27_Witness ==
    /\ pc = "probed_chain"
    /\ probe = "None"
    /\ Len(probe_in.new_ops) = 2
    /\ probe_in.required_input_keys = <<"x", "y">>
    /\ probe_in.new_ops[1].prompt = << <<"input", "x">> >>
    /\ probe_in.new_ops[2].output_keys = <<"y", "x">>
    /\ probe_in.expected_output_keys = <<"x", "y">>

\* C27 witness, rejection: no operator at all and a required key.
C27_WitnessRejected ==
    /\ pc = "probed_chain"
    /\ probe = "ValueError"
    /\ probe_in.new_ops = <<>>
    /\ probe_in.required_input_keys # <<>>
    /\ probe_in.expected_output_keys = <<>>

(***************************************************************************)
(* ChainingDirective.apply(ops_list, target_op, rewrite), as the test      *)
(* test_chaining_apply calls it (test_directive_apply.py:21-58).  An       *)
(* operator is a record of name and type; rewrite.new_ops is the list of   *)
(* the names of its MapOpConfig entries.                                   *)
(***************************************************************************)
MaxOps == 3

NewOpNames == {"x", "y"}

OpLists == SeqsUpTo([name : OpNames, type : {"map"}], MaxOps)

ChainRewrites == SeqsUpTo(NewOpNames, 2)

\* The map operator the directive builds from one MapOpConfig.
MapOpOf(name) == [name |-> name, type |-> "map"]

\* Variant of ChainingDirective_apply: the target operator is kept in front
\* of the chain.
RECURSIVE ChainingDirective_apply_keeps_target(_, _, _)
ChainingDirective_apply_keeps_target(ops_list, target_op, new_ops) ==
    IF ops_list = <<>> THEN <<>>
    ELSE (IF Head(ops_list).name = target_op
          THEN <<Head(ops_list)>> \o [i \in DOMAIN new_ops |-> MapOpOf(new_ops[i])]
          ELSE <<Head(ops_list)>>)
         \o ChainingDirective_apply_keeps_target(Tail(ops_list), target_op,
                                                 new_ops)

\* The operator named target_op is replaced, where it stands, by the chain
\* of the operators of rewrite.new_ops; every other operator is kept.
RECURSIVE ChainingDirective_apply(_, _, _)
ChainingDirective_apply(ops_list, target_op, new_ops) ==
    IF ops_list = <<>> THEN <<>>
    ELSE (IF Head(ops_list).name = target_op
          THEN [i \in DOMAIN new_ops |-> MapOpOf(new_ops[i])]
          ELSE <<Head(ops_list)>>)
         \o ChainingDirective_apply(Tail(ops_list), target_op, new_ops)

InitApply ==
    /\ NoSearch
    /\ pc = "probe_apply"
    /\ probe = "none"
    /\ probe_in \in [ops_list : OpLists,
                      target_op : OpNames,
                      new_ops : ChainRewrites]

\* result = directive.apply(ops_list, "extract_info", rewrite)
test_chaining_apply ==
    /\ pc = "probe_apply"
    /\ probe' = ChainingDirective_apply(probe_in.ops_list, probe_in.target_op,
                                        probe_in.new_ops)
    /\ pc' = "probed_apply"
    /\ UNCHANGED <<search_vars, probe_in>>

NextApply == test_chaining_apply

SpecApply == InitApply /\ [][NextApply]_vars

\* The positions of ops_list that hold the operator named target_op.
TargetPositions ==
    {i \in DOMAIN probe_in.ops_list :
        probe_in.ops_list[i].name = probe_in.target_op}

C28_WitnessMiddle ==
    /\ pc = "probed_apply"
    /\ Len(probe_in.ops_list) = 3
    /\ TargetPositions = {2}
    /\ Len(probe_in.new_ops) = 2
    /\ Len(probe) = 4

(***************************************************************************)
(* The search of a controller whose directives produce nothing: every      *)
(* expansion ends with a RuntimeError, because its menu is empty or        *)
(* because instantiate() returns None for the answer, which is taken from  *)
(* the menu.  The controller was constructed with max_iterations =         *)
(* MaxStarved on a root plan of one or of two operators.                   *)
(***************************************************************************)
MaxStarved == 4

StarvedPlans == {{"a"}, {"a", "b"}}

\* The state MCTS.__init__ and the prologue of search leave.
InitStarved ==
    \E plan \in StarvedPlans :
        /\ pc = "loop"
        /\ err = ""
        /\ nnodes = 1
        /\ parent = <<None>>
        /\ children = <<  <<>>  >>
        /\ visits = <<InitialRootVisits>>
        /\ value = <<0>>
        /\ ops = <<plan>>
        /\ yaml_file_path = <<RootYamlPath>>
        /\ parsed_yaml = <<[output_path |-> RootOutputPath,
                            bypass_cache |-> FALSE,
                            steps |-> <<as_list(plan)>>]>>
        /\ made_by = <<[goal |-> "none", directive |-> "none",
                        targets |-> {}]>>
        /\ used_actions_acc = <<EmptyUsed>>
        /\ used_actions_cost = <<EmptyUsed>>
        /\ cost = <<RootOutcome[1]>>
        /\ accuracy = <<RootOutcome[2]>>
        /\ frontier_plans = {root}
        /\ available_actions \in Catalogs
        /\ iteration_count = 0
        /\ max_time = None
        /\ start_time = 0
        /\ now = 0
        /\ leaf = None
        /\ leaf_acc = None
        /\ leaf_cost = None
        /\ has_leaf_acc = 0
        /\ has_leaf_cost = 0
        /\ menu = {}
        /\ reply = NoReply
        /\ outcome_acc = "none"
        /\ outcome_cost = "none"
        /\ executed = <<1>>
        /\ attributed = <<1>>
        /\ discarded = <<1>>
        /\ iter0 = [visits |-> 0, children |-> 0, cycles |-> 0,
                    affected |-> 0]
        /\ started = 0
        /\ probe = "none"
        /\ probe_in = "none"

\* search loop test (mcts.py:94) with max_iterations = MaxStarved, and the
\* selection phase of mcts_iteration, mcts.py:119-130.
StarvedSelect ==
    /\ pc = "loop"
    /\ iteration_count < MaxStarved
    /\ \E l \in select(root) :
         IF l = None
         THEN /\ pc' = "crashed"
              /\ err' = "ValueError"
              /\ UNCHANGED <<leaf, iter0>>
         ELSE /\ pc' = "expand_acc"
              /\ leaf' = l
              /\ iter0' = [visits |-> visits[root],
                           children |-> Len(children[l]),
                           cycles |-> 0,
                           affected |-> 0]
              /\ UNCHANGED err
    /\ leaf_acc' = None
    /\ leaf_cost' = None
    /\ has_leaf_acc' = 0
    /\ has_leaf_cost' = 0
    /\ outcome_acc' = "none"
    /\ outcome_cost' = "none"
    /\ menu' = {}
    /\ reply' = NoReply
    /\ started' = started + 1
    /\ UNCHANGED <<nnodes, parent, children, visits, value, ops,
                   yaml_file_path, parsed_yaml, made_by, used_actions_acc,
                   used_actions_cost, cost, accuracy, frontier_plans,
                   available_actions, iteration_count, max_time, start_time,
                   now, executed, attributed, discarded, probe, probe_in>>

\* The target lists an answer can name for the directive d without leaving
\* the menu: the operators that the menu pairs with d.
MenuTargets(action_options, d) ==
    {T \in SUBSET {o \in OpNames : <<o, d>> \in action_options} : T # {}}

\* expand(node, goal) up to mcts.py:462 when instantiate() returns None.
expand_starved(node, goal) ==
    LET action_options == IF goal = "acc" THEN action_options_acc(node)
                          ELSE action_options_cost(node)
    IN
    /\ menu' = action_options
    /\ IF action_options = {}
       THEN /\ Returned(goal, "exhausted", None)
            /\ reply' = NoReply
            /\ UNCHANGED <<used_actions_acc, used_actions_cost>>
       ELSE \E choice \in action_options :
              \E target_op_list \in MenuTargets(action_options, choice[2]) :
                LET directive_name == choice[2] IN
                /\ reply' = [directive |-> directive_name,
                             operators |-> target_op_list]
                /\ used_actions_acc' =
                     MarkUsed(node, goal, target_op_list, directive_name)
                /\ used_actions_cost' =
                     MarkUsedCost(node, goal, target_op_list, directive_name)
                /\ Returned(goal, "instantiate_failed", None)
    /\ TreeUnchanged

StarvedExpandAcc ==
    /\ pc = "expand_acc"
    /\ expand_starved(leaf, "acc")
    /\ UNCHANGED <<frontier_plans, available_actions, iteration_count,
                   max_time, start_time, now, leaf, iter0, started, probe,
                   probe_in>>

StarvedExpandCost ==
    /\ pc = "expand_cost"
    /\ expand_starved(leaf, "cost")
    /\ UNCHANGED <<frontier_plans, available_actions, iteration_count,
                   max_time, start_time, now, leaf, iter0, started, probe,
                   probe_in>>

\* search, mcts.py:94-115, with max_iterations = MaxStarved.
StarvedFinish ==
    /\ pc = "loop"
    /\ ~(iteration_count < MaxStarved)
    /\ pc' = "Terminated"
    /\ UNCHANGED <<err, nnodes, parent, children, visits, value, ops,
                   yaml_file_path, parsed_yaml, made_by, used_actions_acc,
                   used_actions_cost, cost, accuracy, frontier_plans,
                   available_actions, iteration_count, max_time, start_time,
                   now, leaf, leaf_acc, leaf_cost, has_leaf_acc,
                   has_leaf_cost, menu, reply, outcome_acc, outcome_cost,
                   executed, attributed, discarded, iter0, started, probe,
                   probe_in>>

NextStarved ==
    \/ StarvedSelect
    \/ StarvedExpandAcc
    \/ StarvedExpandCost
    \/ SimulateAcc
    \/ SimulateCost
    \/ StarvedFinish

SpecStarved == InitStarved /\ [][NextStarved]_vars

\* C32 as stated: in every reachable state a node for which
\* is_fully_explored is true has at least one child, so that select never
\* calls best_child() on a node without children.
C32_FullyExploredHasChild ==
    \A n \in Nodes : is_fully_explored(n) => children[n] # <<>>

(***************************************************************************)
(* MCTS.fix_models_azure, mcts.py:212-225, applied to plans of any nesting *)
(* of dictionaries and lists up to MaxNesting.  A value is a record of its *)
(* type t and its content: the characters of a string, the number of an    *)
(* integer, the items of a dictionary as a function from its keys, the     *)
(* elements of a list as a sequence.                                       *)
(***************************************************************************)
MaxNesting == 3

Str(s) == [t |-> "str", chars |-> s]

Num(i) == [t |-> "int", n |-> i]

Dict(f) == [t |-> "dict", items |-> f]

List(s) == [t |-> "list", elems |-> s]

\* The string "azure" and the prefix of f"azure/{value}".
azure == <<"a", "z", "u", "r", "e">>

azure_slash == azure \o <<"/">>

\* The values at the leaves of a plan, and the values beside a nested one.
LeafValues ==
    {Str(<<"g">>), Str(azure_slash \o <<"g">>), Str(<<"a", "z">>), Str(azure),
     Num(1), Dict(<<>>), List(<<>>)}

SiblingValues == {Str(<<"g">>), Str(azure_slash \o <<"g">>)}

DictKeys == {"model", "name"}

\* str.startswith
startswith(string, prefix) ==
    /\ Len(string) >= Len(prefix)
    /\ SubSeq(string, 1, Len(prefix)) = prefix

\* Variant of traverse: the items of a list are not visited.
RECURSIVE traverse_skips_lists(_)
traverse_skips_lists(obj) ==
    IF obj.t = "dict"
    THEN Dict([key \in DOMAIN obj.items |->
                  LET val == obj.items[key] IN
                  IF key = "model" /\ val.t = "str"
                  THEN IF ~startswith(val.chars, azure)
                       THEN Str(azure_slash \o val.chars)
                       ELSE val
                  ELSE traverse_skips_lists(val)])
    ELSE obj

\* traverse(obj), mcts.py:213-223: the object after the in-place rewrite.
RECURSIVE traverse(_)
traverse(obj) ==
    IF obj.t = "dict"
    THEN Dict([key \in DOMAIN obj.items |->
                  LET val == obj.items[key] IN
                  IF key = "model" /\ val.t = "str"
                  THEN IF ~startswith(val.chars, azure)
                       THEN Str(azure_slash \o val.chars)
                       ELSE val
                  ELSE traverse(val)])
    ELSE IF obj.t = "list"
    THEN List([i \in DOMAIN obj.elems |-> traverse(obj.elems[i])])
    ELSE obj

\* fix_models_azure(parsed_yaml), mcts.py:225.
fix_models_azure(plan) == traverse(plan)

\* The greatest of a set of natural numbers, 0 for the empty set.
Max(S) == IF S = {} THEN 0 ELSE CHOOSE x \in S : \A y \in S : y <= x

\* The number of dictionaries and lists around the innermost value.
RECURSIVE Nesting(_)
Nesting(obj) ==
    IF obj.t = "dict"
    THEN 1 + Max({Nesting(obj.items[k]) : k \in DOMAIN obj.items})
    ELSE IF obj.t = "list"
    THEN 1 + Max({Nesting(obj.elems[i]) : i \in DOMAIN obj.elems})
    ELSE 0

InitAzure ==
    /\ NoSearch
    /\ pc = "build_plan"
    /\ probe = "none"
    /\ probe_in \in LeafValues

\* The plan is put under a key of a dictionary, alone or beside a string
\* under the other key.
WrapInDict ==
    /\ pc = "build_plan"
    /\ Nesting(probe_in) < MaxNesting
    /\ \E key \in DictKeys :
         \/ probe_in' = Dict([k \in {key} |-> probe_in])
         \/ \E s \in SiblingValues :
              probe_in' = Dict([k \in DictKeys |->
                                   IF k = key THEN probe_in ELSE s])
    /\ UNCHANGED <<search_vars, pc, probe>>

\* The plan is made an item of a list, alone, before or after a string.
WrapInList ==
    /\ pc = "build_plan"
    /\ Nesting(probe_in) < MaxNesting
    /\ \/ probe_in' = List(<<probe_in>>)
       \/ \E s \in SiblingValues :
            \/ probe_in' = List(<<s, probe_in>>)
            \/ probe_in' = List(<<probe_in, s>>)
    /\ UNCHANGED <<search_vars, pc, probe>>

\* self.fix_models_azure(new_parsed_yaml), mcts.py:471; a plan is a
\* dictionary.
ProbeFixModels ==
    /\ pc = "build_plan"
    /\ probe_in.t = "dict"
    /\ probe' = fix_models_azure(probe_in)
    /\ pc' = "fixed"
    /\ UNCHANGED <<search_vars, probe_in>>

\* fix_models_azure applied to the plan it has already rewritten; probe_in
\* keeps the plan of before and of after the first application.
ProbeFixModelsAgain ==
    /\ pc = "fixed"
    /\ probe' = fix_models_azure(probe)
    /\ probe_in' = [before |-> probe_in, once |-> probe]
    /\ pc' = "fixed_twice"
    /\ UNCHANGED search_vars

NextAzure ==
    \/ WrapInDict
    \/ WrapInList
    \/ ProbeFixModels
    \/ ProbeFixModelsAgain

SpecAzure == InitAzure /\ [][NextAzure]_vars

\* The values of the string-valued fields named "model" anywhere in a plan.
RECURSIVE ModelValues(_)
ModelValues(obj) ==
    IF obj.t = "dict"
    THEN UNION {ModelValues(obj.items[k]) : k \in DOMAIN obj.items}
         \cup {obj.items[k].chars :
                  k \in {j \in DOMAIN obj.items \cap {"model"} :
                            obj.items[j].t = "str"}}
    ELSE IF obj.t = "list"
    THEN UNION {ModelValues(obj.elems[i]) : i \in DOMAIN obj.elems}
    ELSE {}

\* The plan after agrees with the plan before everywhere but in the
\* string-valued "model" fields that lacked the prefix, which are still
\* strings.
RECURSIVE OnlyUnprefixedModelsDiffer(_, _)
OnlyUnprefixedModelsDiffer(before, after) ==
    /\ after.t = before.t
    /\ IF before.t = "dict"
       THEN /\ DOMAIN after.items = DOMAIN before.items
            /\ \A k \in DOMAIN before.items :
                  IF /\ k = "model"
                     /\ before.items[k].t = "str"
                     /\ ~startswith(before.items[k].chars, azure)
                  THEN after.items[k].t = "str"
                  ELSE OnlyUnprefixedModelsDiffer(before.items[k],
                                                  after.items[k])
       ELSE IF before.t = "list"
       THEN /\ Len(after.elems) = Len(before.elems)
            /\ \A i \in DOMAIN before.elems :
                  OnlyUnprefixedModelsDiffer(before.elems[i], after.elems[i])
       ELSE after = before

\* C38: after fix_models_azure(plan) every string-valued field named
\* "model", at any nesting depth of dictionaries and lists, starts with
\* "azure"; the values that carried the prefix and every other field are as
\* they were; and a second application changes nothing.
C38_FixModelsAzure ==
    /\ pc = "fixed" =>
          /\ \A s \in ModelValues(probe) : startswith(s, azure)
          /\ OnlyUnprefixedModelsDiffer(probe_in, probe)
    /\ pc = "fixed_twice" => probe = probe_in.once

\* C38 witness: a plan whose own "model" carries the prefix and that holds,
\* in a list under another key, a dictionary whose "model" lacks it, has
\* been rewritten twice; only the inner field was changed.
C38_Witness ==
    /\ pc = "fixed_twice"
    /\ probe_in.before =
          Dict([k \in DictKeys |->
                   IF k = "model" THEN Str(azure_slash \o <<"g">>)
                   ELSE List(<<Dict([j \in {"model"} |-> Str(<<"g">>)])>>)])
    /\ probe =
          Dict([k \in DictKeys |->
                   IF k = "model" THEN Str(azure_slash \o <<"g">>)
                   ELSE List(<<Dict([j \in {"model"} |->
                                        Str(azure_slash \o <<"g">>)])>>)])

\* C38 witness: a "model" field that holds a dictionary is not a string
\* and is kept, while the "model" string inside it is rewritten.
C38_WitnessNestedModel ==
    /\ pc = "fixed"
    /\ probe_in = Dict([k \in {"model"} |->
                           Dict([j \in {"model"} |-> Str(<<"a", "z">>)])])
    /\ probe = Dict([k \in {"model"} |->
                        Dict([j \in {"model"} |->
                                 Str(azure_slash \o <<"a", "z">>)])])

(***************************************************************************)
(* IsolatingSubtasksInstantiateSchema.validate_subtasks_coverage and       *)
(* validate_aggregation_references_all_subtasks,                           *)
(* instantiate_schemas.py:226-268, applied to arbitrary schema objects.    *)
(* A prompt is the list of its parts: template placeholders as pairs       *)
(* <<namespace, key>> and pieces of text as pairs <<"text", characters>>.  *)
(***************************************************************************)
MaxSubtasks == 2

\* Pieces of text that str.strip() removes.
Whitespace == {<<"text", " ">>, <<"text", "\t">>}

\* The aggregation prompts check_aggregation_prompt lets through: blank
\* ones, and ones with at least one {{ input.key }} reference.
AggregationPrompts ==
    {<<>>,
     << <<"text", " ">>, <<"text", "\t">> >>,
     << <<"input", "x">> >>,
     << <<"text", " ">>, <<"input", "y">>, <<"text", "and">> >>,
     << <<"input", "x">>, <<"text", " ">>, <<"input", "y">> >>,
     << <<"input", "y">>, <<"output", "x">> >>}

SubtaskNames == {"s"}

SubtaskConfigs == [name : SubtaskNames, output_keys : OutputKeyLists]

\* Lines 230-232: subtask_keys after the loop.
RECURSIVE subtask_keys(_)
subtask_keys(subtasks) ==
    IF subtasks = <<>> THEN {}
    ELSE Range(Head(subtasks).output_keys) \cup subtask_keys(Tail(subtasks))

\* Variant of validate_subtasks_coverage: only missing keys are an error.
validate_subtasks_coverage_missing_only(subtasks, original_output_keys) ==
    LET original_keys_set == Range(original_output_keys)
    IN  IF original_keys_set \ subtask_keys(subtasks) # {}
        THEN "ValueError"
        ELSE "None"

\* validate_subtasks_coverage: "None" when it returns, "ValueError" when it
\* raises.
validate_subtasks_coverage(subtasks, original_output_keys) ==
    LET original_keys_set == Range(original_output_keys)
    IN  IF subtask_keys(subtasks) # original_keys_set
        THEN "ValueError"
        ELSE "None"

\* not prompt.strip(): nothing is left when the whitespace is stripped.
RECURSIVE strip_is_empty(_)
strip_is_empty(prompt) ==
    IF prompt = <<>> THEN TRUE
    ELSE IF Head(prompt) \notin Whitespace THEN FALSE
    ELSE strip_is_empty(Tail(prompt))

\* Lines 258-261: the keys of one subtask appended to missing_references.
RECURSIVE missing_in_subtask(_, _)
missing_in_subtask(output_keys, aggregation_prompt) ==
    IF output_keys = <<>> THEN <<>>
    ELSE (IF ~re_search_input(Head(output_keys), aggregation_prompt)
          THEN <<Head(output_keys)>> ELSE <<>>)
         \o missing_in_subtask(Tail(output_keys), aggregation_prompt)

\* Lines 256-261: missing_references after the loop over the subtasks.
RECURSIVE missing_references(_, _)
missing_references(subtasks, aggregation_prompt) ==
    IF subtasks = <<>> THEN <<>>
    ELSE missing_in_subtask(Head(subtasks).output_keys, aggregation_prompt)
         \o missing_references(Tail(subtasks), aggregation_prompt)

\* validate_aggregation_references_all_subtasks: "None" when it returns,
\* "ValueError" when it raises.
validate_aggregation_references_all_subtasks(subtasks, aggregation_prompt) ==
    IF strip_is_empty(aggregation_prompt) THEN "None"
    ELSE IF missing_references(subtasks, aggregation_prompt) # <<>>
         THEN "ValueError"
    ELSE "None"

InitSubtasks ==
    /\ NoSearch
    /\ pc = "probe_subtasks"
    /\ probe = "none"
    /\ probe_in \in [subtasks : SeqsUpTo(SubtaskConfigs, MaxSubtasks),
                      aggregation_prompt : AggregationPrompts,
                      original_output_keys : OutputKeyLists]

ProbeValidateCoverage ==
    /\ pc = "probe_subtasks"
    /\ probe' = validate_subtasks_coverage(probe_in.subtasks,
                                           probe_in.original_output_keys)
    /\ pc' = "probed_coverage"
    /\ UNCHANGED <<search_vars, probe_in>>

ProbeValidateAggregation ==
    /\ pc = "probe_subtasks"
    /\ probe' = validate_aggregation_references_all_subtasks(
                    probe_in.subtasks, probe_in.aggregation_prompt)
    /\ pc' = "probed_aggregation"
    /\ UNCHANGED <<search_vars, probe_in>>

NextSubtasks ==
    \/ ProbeValidateCoverage
    \/ ProbeValidateAggregation

SpecSubtasks == InitSubtasks /\ [][NextSubtasks]_vars

\* The output keys of all subtasks of the schema object.
AllSubtaskKeys ==
    UNION {Range(probe_in.subtasks[i].output_keys) :
              i \in DOMAIN probe_in.subtasks}

\* C39: validate_subtasks_coverage raises ValueError exactly when the union
\* of the output keys of all subtasks differs as a set from the original
\* output keys, a key missing or a key extra; and
\* validate_aggregation_references_all_subtasks raises exactly when the
\* aggregation prompt is not blank and some output key of some subtask is
\* not referenced in it as {{ input.key }}.
C39_SubtaskValidators ==
    /\ pc = "probed_coverage" =>
          ((probe = "ValueError") <=>
              \E k \in Keys :
                  \/ k \in Range(probe_in.original_output_keys)
                        /\ k \notin AllSubtaskKeys
                  \/ k \in AllSubtaskKeys
                        /\ k \notin Range(probe_in.original_output_keys))
    /\ pc = "probed_aggregation" =>
          ((probe = "ValueError") <=>
              /\ Range(probe_in.aggregation_prompt) \ Whitespace # {}
              /\ \E k \in AllSubtaskKeys :
                    <<"input", k>> \notin Range(probe_in.aggregation_prompt))

\* C39 witness: the subtasks yield x and y while the original operator
\* yields x alone; the extra key is refused.
C39_Witness ==
    /\ pc = "probed_coverage"
    /\ Len(probe_in.subtasks) = 2
    /\ AllSubtaskKeys = {"x", "y"}
    /\ probe_in.original_output_keys = <<"x">>
    /\ probe = "ValueError"

\* C39 witness: a prompt that references y alone is refused for subtasks
\* that yield x and y.
C39_WitnessAggregation ==
    /\ pc = "probed_aggregation"
    /\ probe_in.aggregation_prompt =
          << <<"text", " ">>, <<"input", "y">>, <<"text", "and">> >>
    /\ AllSubtaskKeys = {"x", "y"}
    /\ probe = "ValueError"

\* C39 witness: a blank prompt is accepted whatever the subtasks yield.
C39_WitnessBlank ==
    /\ pc = "probed_aggregation"
    /\ probe_in.aggregation_prompt = << <<"text", " ">>, <<"text", "\t">> >>
    /\ AllSubtaskKeys # {}
    /\ probe = "None"

====
